---- MODULE Spec2Model ----
(***************************************************************************)
(* Self-healing test framework: the Execution Wrapper                      *)
(* (BaseFramework.executeTest / attemptHealing) driving the Healing        *)
(* Orchestrator (HealingEngine.analyzeError / applyHealing) of one         *)
(* framework instance.  executeTest calls are sequential; every await of   *)
(* the JavaScript code is a step of the state machine.                     *)
(***************************************************************************)
EXTENDS Integers, Sequences, FiniteSets, TLC

\* ------------------------------------------------------------------ bounds
MaxTests == 1
MaxAttemptsOption == 2
MaxStrategies == 2

\* ------------------------------------------------------- text of messages
\* Messages are sequences of characters, so that toLowerCase() and
\* String.prototype.includes() are computed, not assumed.
Upper == <<"A","B","C","D","E","F","G","H","I","J","K","L","M","N","O","P","Q","R","S","T","U","V","W","X","Y","Z">>
Lower == <<"a","b","c","d","e","f","g","h","i","j","k","l","m","n","o","p","q","r","s","t","u","v","w","x","y","z">>

LowerChar(c) ==
    IF \E i \in 1..26 : Upper[i] = c
    THEN Lower[CHOOSE i \in 1..26 : Upper[i] = c]
    ELSE c

toLowerCase(s) == [i \in 1..Len(s) |-> LowerChar(s[i])]

includes(s, p) ==
    \E i \in 1..(Len(s) - Len(p) + 1) : SubSeq(s, i, i + Len(p) - 1) = p

\* The messages of the errors in this model: "unrelated syntax problem"
\* (not healable), "TIMEOUT exceeded" (healable, mixed case) and the
\* message of the TypeError that reading `.message.toLowerCase()` of a
\* thrown value without a string message raises.  Index 0 (NoMessage)
\* marks such a thrown value.  The fourth message is the one of the error
\* a failing AI collaborator raises.
NoMessage == 0
TypeErrorMsg == 3
AIErrorMsg == 4
Messages == <<
    <<"u","n","r","e","l","a","t","e","d"," ","s","y","n","t","a","x"," ","p","r","o","b","l","e","m">>,
    <<"T","I","M","E","O","U","T"," ","e","x","c","e","e","d","e","d">>,
    <<"C","a","n","n","o","t"," ","r","e","a","d"," ","p","r","o","p","e","r","t","i","e","s"," ","o","f"," ","u","n","d","e","f","i","n","e","d"," ","(","r","e","a","d","i","n","g"," ","'","t","o","L","o","w","e","r","C","a","s","e","'",")">>,
    <<"A","I"," ","s","e","r","v","i","c","e"," ","u","n","a","v","a","i","l","a","b","l","e">>,
    \* messages that match the rule of one classification and of the next
    <<"S","e","l","e","c","t","o","r"," ","T","I","M","E","O","U","T">>,
    <<"w","a","i","t",":"," ","n","o","t"," ","v","i","s","i","b","l","e">>,
    <<"N","o","t"," ","C","l","i","c","k","a","b","l","e"," ","a","f","t","e","r"," ","n","a","v","i","g","a","t","i","o","n">>,
    <<"p","a","g","e"," ","n","o","t"," ","f","o","u","n","d"," ","a","t"," ","a","p","i">>,
    <<"e","n","d","p","o","i","n","t"," ","e","x","p","e","c","t">>,
    <<"A","s","s","e","r","t","i","o","n","E","r","r","o","r",":"," ","n","e","t","w","o","r","k">>,
    <<"c","o","n","n","e","c","t","i","o","n"," ","r","e","s","e","t">>,
    <<"E","l","e","m","e","n","t"," ","n","o","t"," ","f","o","u","n","d">>,
    \* messages that hold the other substrings of the wrapper's allow-list
    <<"S","e","l","e","c","t","o","r"," ","N","o","t"," ","F","o","u","n","d",":"," ","#","s","u","b","m","i","t">>,
    <<"N","e","t","w","o","r","k"," ","E","r","r","o","r"," ","o","n"," ","f","e","t","c","h">>,
    <<"A","s","s","e","r","t","i","o","n"," ","F","a","i","l","e","d",":"," ","1"," ","=","="," ","2">>,
    <<"E","l","e","m","e","n","t"," ","N","o","t"," ","V","i","s","i","b","l","e"," ","y","e","t">>,
    <<"t","a","r","g","e","t"," ","e","l","e","m","e","n","t"," ","n","o","t"," ","c","l","i","c","k","a","b","l","e">> >>

ThrowableMessages == {NoMessage, 1, 2}

\* A message that is not a string (the number 42).
NumberMessage == 42

\* Mutant: the allow-list holds a substring no classification rule knows.
healablePatternsWithSyntax == <<
    <<"t","i","m","e","o","u","t">>,
    <<"s","y","n","t","a","x">> >>

healablePatterns == <<
    <<"e","l","e","m","e","n","t"," ","n","o","t"," ","f","o","u","n","d">>,
    <<"t","i","m","e","o","u","t">>,
    <<"s","e","l","e","c","t","o","r"," ","n","o","t"," ","f","o","u","n","d">>,
    <<"n","e","t","w","o","r","k"," ","e","r","r","o","r">>,
    <<"a","s","s","e","r","t","i","o","n"," ","f","a","i","l","e","d">>,
    <<"e","l","e","m","e","n","t"," ","n","o","t"," ","v","i","s","i","b","l","e">>,
    <<"e","l","e","m","e","n","t"," ","n","o","t"," ","c","l","i","c","k","a","b","l","e">> >>

\* ------------------------------------------------------------ error values
\* name: the class of the error object; message: index into Messages;
\* wrapsThrown: TRUE iff the object is a HealableError whose originalError
\* is the value testFunction threw.
PlainError(m) == [tag |-> "error", name |-> "Error", message |-> m, wrapsThrown |-> FALSE]

\* Mutant: `super()` called without the original message.
HealableErrorWithoutMessage(originalError) ==
    [tag |-> "error", name |-> "HealableError", message |-> TypeErrorMsg, wrapsThrown |-> TRUE]

HealableError(originalError) ==
    [tag |-> "error", name |-> "HealableError", message |-> originalError.message, wrapsThrown |-> TRUE]

TypeError == [tag |-> "error", name |-> "TypeError", message |-> TypeErrorMsg, wrapsThrown |-> FALSE]

None == [tag |-> "none"]

\* BaseFramework.isHealableError: defined only for errors with a string
\* message (error.message.toLowerCase() throws a TypeError otherwise).
isHealableError(error) ==
    \E i \in 1..Len(healablePatterns) :
        includes(toLowerCase(Messages[error.message]), healablePatterns[i])

\* What the catch block of executeTest receives when testFunction throws
\* `thrownValue` (executeWithHealing's healingWrapper).
executeWithHealingCaught(thrownValue) ==
    IF thrownValue.message = NoMessage THEN TypeError
    ELSE IF isHealableError(thrownValue) THEN HealableError(thrownValue)
    ELSE thrownValue

\* Mutant: the wait rule is tried before the locator rule.
classifyErrorWaitFirst(error) ==
    LET errorMessage == toLowerCase(Messages[error.message])
        has(p) == includes(errorMessage, p)
    IN  IF has(<<"t","i","m","e","o","u","t">>) \/ has(<<"w","a","i","t">>)
            THEN "wait_failure"
        ELSE IF has(<<"e","l","e","m","e","n","t"," ","n","o","t"," ","f","o","u","n","d">>) \/ has(<<"s","e","l","e","c","t","o","r">>)
            THEN "locator_failure"
        ELSE "unknown_failure"

\* HealingEngine.classifyError, for an error whose message is a string.
classifyError(error) ==
    LET errorMessage == toLowerCase(Messages[error.message])
        has(p) == includes(errorMessage, p)
    IN  IF has(<<"e","l","e","m","e","n","t"," ","n","o","t"," ","f","o","u","n","d">>) \/ has(<<"s","e","l","e","c","t","o","r">>)
            THEN "locator_failure"
        ELSE IF has(<<"t","i","m","e","o","u","t">>) \/ has(<<"w","a","i","t">>)
            THEN "wait_failure"
        ELSE IF has(<<"n","o","t"," ","v","i","s","i","b","l","e">>) \/ has(<<"n","o","t"," ","c","l","i","c","k","a","b","l","e">>)
            THEN "element_state_failure"
        ELSE IF has(<<"n","a","v","i","g","a","t","i","o","n">>) \/ has(<<"p","a","g","e"," ","n","o","t"," ","f","o","u","n","d">>)
            THEN "navigation_failure"
        ELSE IF has(<<"a","p","i">>) \/ has(<<"e","n","d","p","o","i","n","t">>)
            THEN "api_failure"
        ELSE IF has(<<"a","s","s","e","r","t","i","o","n">>) \/ has(<<"e","x","p","e","c","t">>)
            THEN "assertion_failure"
        ELSE IF has(<<"n","e","t","w","o","r","k">>) \/ has(<<"c","o","n","n","e","c","t","i","o","n">>)
            THEN "network_failure"
        ELSE "unknown_failure"

\* ------------------------------------------------------------- rationals
\* Scores and rates are exact rationals [n, d] in lowest terms (the values
\* the code computes here are dyadic and exactly representable as doubles).
RECURSIVE GCD(_, _)
GCD(a, b) == IF b = 0 THEN a ELSE GCD(b, a % b)

Rat(n, d) == LET g == GCD(n, d) IN [n |-> n \div g, d |-> d \div g]
RInt(k) == [n |-> k, d |-> 1]
RAdd(a, b) == Rat(a.n * b.d + b.n * a.d, a.d * b.d)
RMul(a, k) == Rat(a.n * k, a.d)
RHalf(a) == Rat(a.n, a.d * 2)
RLess(a, b) == a.n * b.d < b.n * a.d
RMin(a, b) == IF RLess(b, a) THEN b ELSE a
Half == [n |-> 1, d |-> 2]

\* ---------------------------------------------------- strategy candidates
Undefined == "undefined"

\* The fixed name -> handler table of executeHealingStrategy.
HandlerNames == {"locator_healing", "wait_healing", "element_state_healing",
                 "navigation_healing", "api_endpoint_healing",
                 "api_schema_healing", "api_response_healing", "data_healing"}

Candidate(name, confidence, source) ==
    [strategy |-> name, confidence |-> confidence, source |-> source]

\* Candidates the language-model backend may put in its JSON array: a name
\* of the handler table, a free-form name (here one that equals a
\* classification, the only way a learned pattern is ever looked up again)
\* and an element without a "strategy" field.
AICandidates == {
    Candidate("locator_healing", RInt(80), "ai"),
    Candidate("wait_failure", RInt(95), "ai"),
    Candidate(Undefined, RInt(60), "ai") }

RECURSIVE SeqsUpTo(_, _)
SeqsUpTo(S, n) ==
    IF n = 0 THEN {<<>>}
    ELSE LET shorter == SeqsUpTo(S, n - 1)
         IN  shorter \cup {Append(s, x) : s \in {t \in shorter : Len(t) = n - 1}, x \in S}

\* What aiIntegration.callAI does for one prompt: it throws, it answers
\* with a JSON array, or it answers with text that is not JSON and names no
\* strategy.
AIResponses ==
    {[kind |-> "throws", list |-> <<>>], [kind |-> "text", list |-> <<>>]}
    \cup {[kind |-> "json", list |-> l] : l \in SeqsUpTo(AICandidates, MaxStrategies)}

\* Array.prototype.sort((a, b) => b.score - a.score): stable, descending.
InsertByScore(sorted, x) ==
    LET before == {i \in 1..Len(sorted) : RLess(sorted[i].score, x.score)}
        pos == IF before = {} THEN Len(sorted) + 1
               ELSE CHOOSE i \in before : \A j \in before : i <= j
    IN  SubSeq(sorted, 1, pos - 1) \o <<x>> \o SubSeq(sorted, pos, Len(sorted))

RECURSIVE SortByScore(_)
SortByScore(s) ==
    IF s = <<>> THEN <<>>
    ELSE InsertByScore(SortByScore(SubSeq(s, 1, Len(s) - 1)), s[Len(s)])

WithScore(c, score) ==
    [strategy |-> c.strategy, confidence |-> c.confidence, source |-> c.source, score |-> score]

\* `strategy.confidence || 50`
ConfidenceOr50(c) == IF c.confidence.n = 0 THEN RInt(50) ELSE c.confidence

\* AIIntegration.calculateStrategyScore for the engine's own AIIntegration
\* instance, whose learningData is empty: historical rate 0.5 (x 20) and
\* context similarity 0.3 (x 10).
AICalculateStrategyScore(c) ==
    RMin(RInt(100), RAdd(ConfidenceOr50(c), RInt(13)))

AIRankStrategies(strategies) ==
    SortByScore([i \in 1..Len(strategies) |->
                    WithScore(strategies[i], AICalculateStrategyScore(strategies[i]))])

\* AIIntegration.parseHealingStrategies on text that is not JSON and
\* matches none of its strategy patterns.
BasicStrategies ==
    << Candidate("locator_healing", RInt(60), "ai"),
       Candidate("wait_healing", RInt(60), "ai") >>

\* The regular expressions of parseHealingStrategies, /first.*second/i:
\* `first`, then anything but a line break, then `second`, whatever the
\* case.  The texts of this model have one line.
strategyPatterns == <<
    [first |-> <<"l","o","c","a","t","o","r">>, second |-> <<"h","e","a","l","i","n","g">>],
    [first |-> <<"w","a","i","t">>, second |-> <<"s","t","r","a","t","e","g","y">>],
    [first |-> <<"e","l","e","m","e","n","t">>, second |-> <<"s","t","a","t","e">>],
    [first |-> <<"n","a","v","i","g","a","t","i","o","n">>,
     second |-> <<"h","e","a","l","i","n","g">>],
    [first |-> <<"d","a","t","a">>,
     second |-> <<"a","d","j","u","s","t","m","e","n","t">>] >>

\* RegExp.prototype.test
RegExpTest(pattern, s) ==
    LET t == toLowerCase(s)
    IN  \E i \in 1..(Len(t) - Len(pattern.first) + 1) :
            /\ SubSeq(t, i, i + Len(pattern.first) - 1) = pattern.first
            /\ \E j \in (i + Len(pattern.first))..(Len(t) - Len(pattern.second) + 1) :
                   SubSeq(t, j, j + Len(pattern.second) - 1) = pattern.second

\* AIIntegration.extractStrategyName: the pattern is tested against the
\* words 'locator', 'wait', 'element', 'navigation' and 'data'.
extractStrategyName(response, pattern) ==
    IF RegExpTest(pattern, <<"l","o","c","a","t","o","r">>) THEN "locator_healing"
    ELSE IF RegExpTest(pattern, <<"w","a","i","t">>) THEN "wait_healing"
    ELSE IF RegExpTest(pattern, <<"e","l","e","m","e","n","t">>) THEN "element_state_healing"
    ELSE IF RegExpTest(pattern, <<"n","a","v","i","g","a","t","i","o","n">>)
        THEN "navigation_healing"
    ELSE IF RegExpTest(pattern, <<"d","a","t","a">>) THEN "data_healing"
    ELSE "generic_healing"

\* AIIntegration.parseHealingStrategies.  The response is a JSON array
\* ("json"), JSON of another kind ("json_value"), or text JSON.parse
\* rejects: "text" when it is known to match none of the patterns,
\* "prose" when its characters are given.
parseHealingStrategies(response) ==
    CASE response.kind = "json" -> response.list
      [] response.kind = "json_value" -> <<>>
      [] response.kind = "text" -> BasicStrategies
      [] response.kind = "prose" ->
            LET matched == SelectSeq(strategyPatterns,
                                     LAMBDA pattern : RegExpTest(pattern, response.text))
            IN  IF matched = <<>> THEN BasicStrategies
                ELSE [i \in 1..Len(matched) |->
                         Candidate(extractStrategyName(response.text, matched[i]),
                                   RInt(70), "ai")]

\* AIIntegration.generateHealingStrategies
generateHealingStrategies(response) ==
    CASE response.kind = "throws" -> <<>>
      [] OTHER -> AIRankStrategies(parseHealingStrategies(response))

\* ------------------------------------------------ orchestrator, pure part
PageUrl == "https://example.com/login"

\* testContext of a wrapper that was never initialize()d, and of one
\* initialized for a UI test on a page.
TestContexts == {
    [testType |-> Undefined, pageUrl |-> Undefined, aiAnalysis |-> FALSE],
    [testType |-> "ui", pageUrl |-> PageUrl, aiAnalysis |-> FALSE] }

\* The context every recorded healing carries: `result.context || {}`, and
\* no executor result has a context field.
EmptyContext == [testType |-> Undefined, pageUrl |-> Undefined]

extractContextData(context) ==
    [testType |-> IF context.testType = Undefined THEN "ui" ELSE context.testType,
     pageUrl  |-> IF context.pageUrl = Undefined THEN "" ELSE context.pageUrl]

extractDomain(url) == IF url = PageUrl THEN "example.com" ELSE "unknown"

\* Mutant: only the direct error type match is looked up.
findMatchingPatternsDirectOnly(errorType, context) == <<errorType>>

findMatchingPatterns(errorType, context) ==
    <<errorType>>
    \o (IF context.testType = "ui" THEN <<"ui_" \o errorType>>
        ELSE IF context.testType = "api" THEN <<"api_" \o errorType>>
        ELSE <<>>)
    \o (IF context.pageUrl # "" THEN <<extractDomain(context.pageUrl) \o "_" \o errorType>>
        ELSE <<>>)

getPatternBasedStrategies(errorType, context, pats) ==
    LET matchingPatterns == findMatchingPatterns(errorType, context)
        present == SelectSeq(matchingPatterns, LAMBDA k : k \in DOMAIN pats)
    IN  [i \in 1..Len(present) |->
            Candidate(pats[present[i]].name, RMul(pats[present[i]].successRate, 100), "pattern")]

calculateContextSimilarity(context, history) ==
    IF \E i \in 1..Len(history) :
           /\ history[i].context.testType = context.testType
           /\ history[i].context.pageUrl = context.pageUrl
    THEN [n |-> 4, d |-> 5] ELSE [n |-> 3, d |-> 10]

calculateStrategyScore(c, context, rates, history) ==
    LET historicalRate == IF c.strategy \in DOMAIN rates THEN rates[c.strategy] ELSE Half
    IN  RMin(RInt(100),
             RAdd(RAdd(ConfidenceOr50(c), RMul(historicalRate, 30)),
                  RMul(calculateContextSimilarity(context, history), 20)))

\* Mutant: a candidate whose name was seen already is dropped.
rankStrategiesDeduplicated(strategies, context, rates, history) ==
    LET first == SelectSeq([i \in 1..Len(strategies) |-> [at |-> i, c |-> strategies[i]]],
                           LAMBDA e : \A j \in 1..(e.at - 1) :
                                          strategies[j].strategy # e.c.strategy)
    IN  SortByScore([i \in 1..Len(first) |->
                        WithScore(first[i].c,
                                  calculateStrategyScore(first[i].c, context, rates, history))])

rankStrategies(strategies, context, rates, history) ==
    SortByScore([i \in 1..Len(strategies) |->
                    WithScore(strategies[i],
                              calculateStrategyScore(strategies[i], context, rates, history))])

\* HealingEngine.analyzeError; `stamp` stands for the analysis' timestamp.
analyzeError(error, context, response, pats, rates, history, stamp) ==
    LET errorType == classifyError(error)
        contextData == extractContextData(context)
        aiStrategies == generateHealingStrategies(response)
        patternStrategies == getPatternBasedStrategies(errorType, contextData, pats)
    IN  [errorType |-> errorType,
         context |-> contextData,
         strategies |-> rankStrategies(aiStrategies \o patternStrategies, context, rates, history),
         timestamp |-> stamp]

\* How one strategy execution can end, by the branch of
\* executeHealingStrategy its name selects.
ExecOutcomes(strategy) ==
    IF strategy.strategy = Undefined THEN {"dispatch_throws"}
    ELSE IF strategy.strategy \in HandlerNames THEN {"success", "failure", "throws"}
    ELSE {"success", "failure", "undefined"}

\* HealingEngine.executeHealingStrategy: the value it returns, or tag
\* "thrown" when it throws (strategy.strategy.toLowerCase() on a missing
\* name is outside its try block).  An executor that throws is caught
\* here and becomes a success:false result; a custom implementation may
\* return nothing (tag "undefined").  Field `strategy` names the strategy
\* whose execution produced the result.
executeHealingStrategy(strategy, outcome) ==
    CASE outcome = "success" ->
            [tag |-> "result", success |-> TRUE, strategy |-> strategy.strategy, error |-> "none"]
      [] outcome = "failure" ->
            [tag |-> "result", success |-> FALSE, strategy |-> strategy.strategy, error |-> "failed"]
      [] outcome = "throws" ->
            [tag |-> "result", success |-> FALSE, strategy |-> strategy.strategy, error |-> "thrown"]
      [] outcome = "undefined" ->
            [tag |-> "undefined", success |-> FALSE, strategy |-> strategy.strategy, error |-> "none"]
      [] outcome = "dispatch_throws" ->
            [tag |-> "thrown", success |-> FALSE, strategy |-> strategy.strategy, error |-> "TypeError"]

\* Mutant: the loop does not return on success.
applyHealingLoopStepNoReturn(result) == "continue"

\* Mutant: the loop has no try/catch of its own.
applyHealingLoopStepNoCatch(result) ==
    IF result.tag # "result" THEN "throw"
    ELSE IF result.success THEN "return" ELSE "continue"

\* The body of applyHealing's loop after executeHealingStrategy settled:
\* "return" the result, or "continue" with the next strategy (a failed
\* result, or an exception caught by the loop's own try block: a thrown
\* dispatch, or `result.success` read on an undefined result).
applyHealingLoopStep(result) ==
    IF result.tag = "result" /\ result.success THEN "return" ELSE "continue"

StrategyNames(strategies) == [i \in 1..Len(strategies) |-> strategies[i].strategy]

\* Mutant: only the last attempted strategy is reported.
allStrategiesFailedLastOnly(strategies) ==
    [tag |-> "exhausted", success |-> FALSE, error |-> "All healing strategies failed",
     strategies |-> IF strategies = <<>> THEN <<>>
                    ELSE <<strategies[Len(strategies)].strategy>>]

\* applyHealing's return value after the loop ran out of strategies.
allStrategiesFailed(strategies) ==
    [tag |-> "exhausted", success |-> FALSE, error |-> "All healing strategies failed",
     strategies |-> StrategyNames(strategies)]

\* Mutant: the success is counted in totalCount only.
updatePatternsTotalOnly(pats, key, success) ==
    LET old == IF key \in DOMAIN pats THEN pats[key]
               ELSE [name |-> key, successCount |-> 0, totalCount |-> 0, successRate |-> Half]
    IN  [k \in DOMAIN pats \cup {key} |->
            IF k = key
            THEN [name |-> old.name, successCount |-> old.successCount,
                  totalCount |-> old.totalCount + 1,
                  successRate |-> Rat(old.successCount, old.totalCount + 1)]
            ELSE pats[k]]

\* Mutant: successRate is left as it was.
updatePatternsKeepsRate(pats, key, success) ==
    LET old == IF key \in DOMAIN pats THEN pats[key]
               ELSE [name |-> key, successCount |-> 0, totalCount |-> 0, successRate |-> Half]
    IN  [k \in DOMAIN pats \cup {key} |->
            IF k = key
            THEN [name |-> old.name,
                  successCount |-> IF success THEN old.successCount + 1 ELSE old.successCount,
                  totalCount |-> old.totalCount + 1,
                  successRate |-> old.successRate]
            ELSE pats[k]]

\* HealingEngine.updatePatterns(strategy, success) on the Pattern table.
updatePatterns(pats, key, success) ==
    LET old == IF key \in DOMAIN pats THEN pats[key]
               ELSE [name |-> key, successCount |-> 0, totalCount |-> 0, successRate |-> Half]
        sc == IF success THEN old.successCount + 1 ELSE old.successCount
        tc == old.totalCount + 1
    IN  [k \in DOMAIN pats \cup {key} |->
            IF k = key
            THEN [name |-> old.name, successCount |-> sc, totalCount |-> tc, successRate |-> Rat(sc, tc)]
            ELSE pats[k]]

\* The Success Rate table after recordSuccessfulHealing.
updateSuccessRate(rates, key) ==
    LET currentRate == IF key \in DOMAIN rates THEN rates[key] ELSE Half
    IN  [k \in DOMAIN rates \cup {key} |->
            IF k = key THEN RHalf(RAdd(currentRate, RInt(1))) ELSE rates[k]]

\* ------------------------------------------------------------------ state
VARIABLES
    options,              \* BaseFramework.options
    testContext,          \* BaseFramework.testContext
    metrics,              \* BaseFramework.metrics
    healingHistory,       \* BaseFramework.healingHistory (the wrapper's own)
    patterns,             \* HealingEngine.patterns
    successRates,         \* HealingEngine.successRates
    engineHealingHistory, \* HealingEngine.healingHistory
    pc,                   \* position of the running executeTest call
    thrown,               \* the value testFunction threw in this call
    error,                \* `error` of executeTest's catch block
    result,               \* the value testFunction returned in this call
    attempt,              \* attemptHealing's loop counter
    healingAttempts,      \* attemptHealing's local list
    analysis,             \* the analysis of the running cycle
    idx,                  \* applyHealing's position in analysis.strategies
    healingResult,        \* what applyHealing returned (or threw) last
    settled,              \* how the last executeTest call settled
    calls,                \* orchestrator calls made by this executeTest call
    cycleResults,         \* success flag of each finished healing cycle
    execLog,              \* strategy executions of the running applyHealing
    atCall,               \* healedTests and wrapper history at call start
    historyAtApply,       \* engine history when applyHealing was entered
    analysisFailures,     \* analysis steps of this call that threw
    now,                  \* Date.now()
    testStartTime,        \* executeTest's testStartTime
    averageHealingTime,   \* metrics.averageHealingTime
    outcomes,             \* outcome and duration of every settled executeTest call
    store,                \* data/patterns.json
    lastCall,             \* the last call made on the orchestrator, and its outcome
    rateTable,            \* Success Rate table in double precision
    executorCall,         \* the last Strategy Executor call, and its result
    instances,            \* orchestrator instances running side by side
    inFlight,             \* asynchronous operations begun and not yet settled
    testFunctionInvocations \* how often the wrapper's test functions were invoked

vars == <<options, testContext, metrics, healingHistory, patterns, successRates,
          engineHealingHistory, pc, thrown, error, result, attempt,
          healingAttempts, analysis, idx, healingResult, settled, calls,
          cycleResults, execLog, atCall, historyAtApply, analysisFailures,
          now, testStartTime, averageHealingTime, outcomes, store, lastCall,
          rateTable, executorCall, instances, inFlight, testFunctionInvocations>>

frameworkVars == <<options, testContext, metrics, healingHistory>>
engineVars == <<patterns, successRates, engineHealingHistory>>
callVars == <<thrown, error, result, attempt, healingAttempts, analysis, idx,
              healingResult, calls, cycleResults, execLog, atCall, historyAtApply,
              analysisFailures>>

\* Variables of the timed view of executeTest, of the orchestrator's
\* persistence, of the double-precision rate table and of the Strategy
\* Executors: the wrapper's healing flow leaves them alone.
metricsVars == <<now, testStartTime, averageHealingTime, outcomes>>
unitVars == <<now, testStartTime, averageHealingTime, outcomes, store, lastCall,
              rateTable, executorCall, instances, inFlight, testFunctionInvocations>>

Pending == [kind |-> "pending", value |-> None]
NoAnalysis == [errorType |-> "none", context |-> None, strategies |-> <<>>, timestamp |-> 0]

\* The values testFunction returns: an object, or nothing.
TestResults == {[tag |-> "testResult", defined |-> TRUE],
                [tag |-> "testResult", defined |-> FALSE]}

\* No executeTest call is running.
CallIdle ==
    /\ pc = "idle"
    /\ thrown = None
    /\ error = None
    /\ result = None
    /\ attempt = 0
    /\ healingAttempts = <<>>
    /\ analysis = NoAnalysis
    /\ idx = 0
    /\ healingResult = None
    /\ settled = Pending
    /\ calls = <<>>
    /\ cycleResults = <<>>
    /\ execLog = <<>>
    /\ atCall = [healedTests |-> 0, healingHistory |-> <<>>]
    /\ historyAtApply = <<>>
    /\ analysisFailures = {}

NoStore == [exists |-> FALSE]
NoCall == [op |-> "none"]

\* Nothing was timed, persisted or executed yet.
UnitIdle ==
    /\ now = 0
    /\ testStartTime = 0
    /\ averageHealingTime = 0
    /\ outcomes = <<>>
    /\ store = NoStore
    /\ lastCall = NoCall
    /\ rateTable = <<>>
    /\ executorCall = NoCall
    /\ instances = <<>>
    /\ inFlight = <<>>
    /\ testFunctionInvocations = 0

\* State after `new BaseFramework(options)` (and, for the second test
\* context, initialize()) with an empty persisted store.
Init ==
    /\ options \in [enableHealing : BOOLEAN, enableAI : BOOLEAN,
                    maxHealingAttempts : 0..MaxAttemptsOption]
    /\ testContext \in TestContexts
    /\ metrics = [totalTests |-> 0, healedTests |-> 0, healingSuccessRate |-> RInt(0)]
    /\ healingHistory = <<>>
    /\ patterns = <<>>
    /\ successRates = <<>>
    /\ engineHealingHistory = <<>>
    /\ CallIdle
    /\ UnitIdle

\* updateMetrics (the finally block of executeTest).
updateMetrics(m) ==
    [m EXCEPT !.healingSuccessRate = Rat(m.healedTests * 100, m.totalTests)]

\* executeTest up to its first await.
ExecuteTest ==
    /\ pc = "idle"
    /\ metrics.totalTests < MaxTests
    /\ metrics' = [metrics EXCEPT !.totalTests = @ + 1]
    /\ pc' = "preTestAnalysis"
    /\ thrown' = None
    /\ error' = None
    /\ result' = None
    /\ attempt' = 0
    /\ healingAttempts' = <<>>
    /\ analysis' = NoAnalysis
    /\ idx' = 0
    /\ healingResult' = None
    /\ settled' = Pending
    /\ calls' = <<>>
    /\ cycleResults' = <<>>
    /\ execLog' = <<>>
    /\ atCall' = [healedTests |-> metrics.healedTests, healingHistory |-> healingHistory]
    /\ historyAtApply' = <<>>
    /\ analysisFailures' = {}
    /\ UNCHANGED <<options, testContext, healingHistory, engineVars>>
    /\ UNCHANGED unitVars

\* Mutant: the catch block of an analysis step lets the exception through.
analysisFailureEscapes(step) == "escapes"

\* The try/catch of preTestAnalysis and of postTestAnalysis: an exception
\* of the step is logged, and the method returns normally.
analysisFailureHandling(step) == "caught"

\* The analysis step `step` threw inside preTestAnalysis/postTestAnalysis:
\* what executeTest does next.
AnalysisFailure(step, failure, next) ==
    /\ analysisFailures' = analysisFailures \cup {step}
    /\ IF analysisFailureHandling(step) = "caught"
       THEN /\ pc' = next
            /\ UNCHANGED error
       ELSE /\ error' = failure
            /\ pc' = "catch"

\* preTestAnalysis: with the AI enabled, aiIntegration.analyzeTest either
\* returns an analysis, which is stored in testContext, or fails (a
\* collaborator that rejects), which the catch block logs.
PreTestAnalysis(analyzeTest) ==
    /\ pc = "preTestAnalysis"
    /\ IF ~options.enableAI
       THEN /\ analyzeTest = "not called"
            /\ pc' = "testFunction"
            /\ UNCHANGED <<testContext, error, analysisFailures>>
       ELSE IF analyzeTest = "returns"
       THEN /\ testContext' = [testContext EXCEPT !.aiAnalysis = TRUE]
            /\ pc' = "testFunction"
            /\ UNCHANGED <<error, analysisFailures>>
       ELSE /\ analyzeTest = "throws"
            /\ AnalysisFailure("analyzeTest", PlainError(AIErrorMsg), "testFunction")
            /\ UNCHANGED testContext
    /\ UNCHANGED <<options, metrics, healingHistory, engineVars, settled, thrown,
                   result, attempt, healingAttempts, analysis, idx, healingResult,
                   calls, cycleResults, execLog, atCall, historyAtApply>>
    /\ UNCHANGED unitVars

\* The unit variables but the count of test function invocations.
otherUnitVars == <<now, testStartTime, averageHealingTime, outcomes, store, lastCall,
                   rateTable, executorCall, instances, inFlight>>

\* `return await testFunction()` in executeWithHealing: the function
\* returns.
TestFunctionReturns(v) ==
    /\ pc = "testFunction"
    /\ testFunctionInvocations' = testFunctionInvocations + 1
    /\ result' = v
    /\ pc' = "postTestAnalysis"
    /\ UNCHANGED <<frameworkVars, engineVars, settled, thrown, error, attempt,
                   healingAttempts, analysis, idx, healingResult, calls,
                   cycleResults, execLog, atCall, historyAtApply, analysisFailures>>
    /\ UNCHANGED otherUnitVars

\* postTestAnalysis up to the end of its try block.  With the AI enabled,
\* aiIntegration.learnFromTest(result, testContext) returns or throws (a
\* failing collaborator; with learning enabled also an undefined result,
\* whose properties it reads); when it returned,
\* healingEngine.updatePatterns(result, testContext) runs: it reads
\* result.strategy, which throws for an undefined result, and otherwise
\* updates the Pattern table under key result.strategy (undefined) with the
\* test context, a truthy value, as `success`.
postTestAnalysisSteps(learnFromTest) ==
    /\ pc = "postTestAnalysis"
    /\ IF ~options.enableAI
       THEN /\ learnFromTest = "not called"
            /\ pc' = "idle"
            /\ UNCHANGED <<patterns, error, analysisFailures>>
       ELSE IF learnFromTest = "throws"
       THEN /\ AnalysisFailure("learnFromTest", PlainError(AIErrorMsg), "idle")
            /\ UNCHANGED patterns
       ELSE /\ learnFromTest = "returns"
            /\ IF result.defined
               THEN /\ patterns' = updatePatterns(patterns, Undefined, TRUE)
                    /\ pc' = "idle"
                    /\ UNCHANGED <<error, analysisFailures>>
               ELSE /\ AnalysisFailure("updatePatterns", TypeError, "idle")
                    /\ UNCHANGED patterns

\* Mutant: executeTest forgets to return the result of the test.
PostTestAnalysisReturnsNothing(learnFromTest) ==
    /\ postTestAnalysisSteps(learnFromTest)
    /\ IF pc' = "idle"
       THEN /\ settled' = [kind |-> "resolved", value |-> [tag |-> "testResult", defined |-> FALSE]]
            /\ metrics' = updateMetrics(metrics)
       ELSE UNCHANGED <<settled, metrics>>
    /\ UNCHANGED <<options, testContext, healingHistory, successRates,
                   engineHealingHistory, thrown, result, attempt, healingAttempts,
                   analysis, idx, healingResult, calls, cycleResults, execLog,
                   atCall, historyAtApply>>
    /\ UNCHANGED unitVars

\* postTestAnalysis, then `return result` and the finally block of
\* executeTest.
PostTestAnalysis(learnFromTest) ==
    /\ postTestAnalysisSteps(learnFromTest)
    /\ IF pc' = "idle"
       THEN /\ settled' = [kind |-> "resolved", value |-> result]
            /\ metrics' = updateMetrics(metrics)
       ELSE UNCHANGED <<settled, metrics>>
    /\ UNCHANGED <<options, testContext, healingHistory, successRates,
                   engineHealingHistory, thrown, result, attempt, healingAttempts,
                   analysis, idx, healingResult, calls, cycleResults, execLog,
                   atCall, historyAtApply>>
    /\ UNCHANGED unitVars

TestFunctionThrows(m) ==
    /\ pc = "testFunction"
    /\ testFunctionInvocations' = testFunctionInvocations + 1
    /\ thrown' = PlainError(m)
    /\ error' = executeWithHealingCaught(PlainError(m))
    /\ pc' = "catch"
    /\ UNCHANGED <<frameworkVars, engineVars, settled, result, attempt,
                   healingAttempts, analysis, idx, healingResult, calls,
                   cycleResults, execLog, atCall, historyAtApply, analysisFailures>>
    /\ UNCHANGED otherUnitVars

\* Mutant: healing is attempted whatever the enableHealing option says.
shouldAttemptHealingAlways(opts) == TRUE

\* `if (this.options.enableHealing)` in executeTest's catch block: the only
\* condition healing depends on (isHealableError is not consulted here).
shouldAttemptHealing(opts) == opts.enableHealing

\* catch block of executeTest with healing enabled: attemptHealing starts.
CatchAttemptHealing ==
    /\ pc = "catch"
    /\ shouldAttemptHealing(options)
    /\ attempt' = 1
    /\ healingAttempts' = <<>>
    /\ pc' = "attemptHealing"
    /\ UNCHANGED <<frameworkVars, engineVars, settled, thrown, error, result,
                   analysis, idx, healingResult, calls, cycleResults, execLog,
                   atCall, historyAtApply, analysisFailures>>
    /\ UNCHANGED unitVars

\* catch block of executeTest with healing disabled: `throw error`.
CatchRethrow ==
    /\ pc = "catch"
    /\ ~shouldAttemptHealing(options)
    /\ settled' = [kind |-> "rejected", value |-> error]
    /\ metrics' = updateMetrics(metrics)
    /\ pc' = "idle"
    /\ UNCHANGED <<options, testContext, healingHistory, engineVars, callVars>>
    /\ UNCHANGED unitVars

\* Mutant: the loop runs one cycle too many.
loopContinuesOneMore(att, opts) == att <= opts.maxHealingAttempts + 1

\* Mutant: the loop runs twice as many cycles as the option allows.
loopContinuesTwiceAsLong(att, opts) == att <= 2 * opts.maxHealingAttempts

\* attemptHealing's loop condition.
loopContinues(att, opts) == att <= opts.maxHealingAttempts

\* One healing cycle begins (attempt <= maxHealingAttempts):
\* healingEngine.analyzeError(error, healingContext), where healingContext
\* is a copy of testContext.
AnalyzeError(response) ==
    /\ pc = "attemptHealing"
    /\ loopContinues(attempt, options)
    /\ analysis' = analyzeError(error, testContext, response, patterns, successRates,
                                engineHealingHistory, Len(calls) + 1)
    /\ calls' = Append(calls, [op |-> "analyzeError", attempt |-> attempt,
                               analysis |-> Len(calls) + 1])
    /\ pc' = "analyzed"
    /\ UNCHANGED <<frameworkVars, engineVars, settled, thrown, error, result, attempt,
                   healingAttempts, idx, healingResult, cycleResults, execLog,
                   atCall, historyAtApply, analysisFailures>>
    /\ UNCHANGED unitVars

\* healingEngine.applyHealing(healingStrategy, ...) is entered with the
\* analysis of this cycle.
ApplyHealing ==
    /\ pc = "analyzed"
    /\ calls' = Append(calls, [op |-> "applyHealing", attempt |-> attempt,
                               analysis |-> analysis.timestamp])
    /\ idx' = 1
    /\ execLog' = <<>>
    /\ historyAtApply' = engineHealingHistory
    /\ pc' = "applyHealing"
    /\ UNCHANGED <<frameworkVars, engineVars, settled, thrown, error, result, attempt,
                   healingAttempts, analysis, healingResult, cycleResults, atCall,
                   analysisFailures>>
    /\ UNCHANGED unitVars

\* HealingEngine.recordSuccessfulHealing: the new history entry, and the
\* history after `this.healingHistory.push(healingRecord)`.
healingRecord(strategy) ==
    [strategy |-> strategy.strategy, success |-> TRUE, context |-> EmptyContext]

\* Mutant: the record is pushed twice.
pushHealingRecordTwice(history, strategy) ==
    Append(Append(history, healingRecord(strategy)), healingRecord(strategy))

pushHealingRecord(history, strategy) == Append(history, healingRecord(strategy))

\* Mutant: a custom implementation runs the test again.
strategyInvokesTestFunctionWhenCustom(strategy) ==
    IF strategy.strategy \notin HandlerNames \cup {Undefined} THEN 1 ELSE 0

\* How often executing a strategy invokes testFunction:
\* executeHealingStrategy hands testFunction to executeCustomStrategy
\* only, which never calls it (an implementation is called with testData).
strategyInvokesTestFunction(strategy) == 0

\* One iteration of applyHealing's loop: the strategy at idx is executed
\* and settles with `outcome`.
ExecuteStrategy(outcome) ==
    /\ pc = "applyHealing"
    /\ idx <= Len(analysis.strategies)
    /\ outcome \in ExecOutcomes(analysis.strategies[idx])
    /\ testFunctionInvocations' =
          testFunctionInvocations + strategyInvokesTestFunction(analysis.strategies[idx])
    /\ LET strategy == analysis.strategies[idx]
           r == executeHealingStrategy(strategy, outcome)
           step == applyHealingLoopStep(r)
       IN  /\ execLog' = Append(execLog, [index |-> idx, strategy |-> strategy.strategy,
                                          outcome |-> outcome])
           /\ IF step = "return"
              THEN /\ engineHealingHistory' = pushHealingRecord(engineHealingHistory, strategy)
                   /\ successRates' = updateSuccessRate(successRates, strategy.strategy)
                   /\ patterns' = updatePatterns(patterns, strategy.strategy, TRUE)
                   /\ healingResult' = r
                   /\ pc' = "applyReturned"
                   /\ idx' = idx
              ELSE IF step = "continue"
              THEN /\ idx' = idx + 1
                   /\ UNCHANGED <<engineVars, healingResult, pc>>
              ELSE \* the exception leaves applyHealing
                   /\ healingResult' = [r EXCEPT !.tag = "thrown"]
                   /\ pc' = "applyReturned"
                   /\ UNCHANGED <<engineVars, idx>>
    /\ UNCHANGED <<frameworkVars, settled, thrown, error, result, attempt,
                   healingAttempts, analysis, calls, cycleResults, atCall, historyAtApply, analysisFailures>>
    /\ UNCHANGED otherUnitVars

\* applyHealing's loop ran out of strategies.
AllStrategiesFailed ==
    /\ pc = "applyHealing"
    /\ idx > Len(analysis.strategies)
    /\ healingResult' = allStrategiesFailed(analysis.strategies)
    /\ pc' = "applyReturned"
    /\ UNCHANGED <<frameworkVars, engineVars, settled, thrown, error, result, attempt,
                   healingAttempts, analysis, idx, calls, cycleResults, execLog,
                   atCall, historyAtApply, analysisFailures>>
    /\ UNCHANGED unitVars

\* `if (healingResult.success)` in attemptHealing.
cycleSucceeded(r) == r.tag # "thrown" /\ r.success

\* Mutant: every healing attempt counts as a healed test.
healedTestsAfterAnyAttempt(healed, r) == healed + 1

\* Mutant: a healed test is counted twice.
healedTestsCountedTwice(healed, r) == IF cycleSucceeded(r) THEN healed + 2 ELSE healed

\* healedTests after attemptHealing returned `r` to executeTest.
healedTestsAfter(healed, r) == IF cycleSucceeded(r) THEN healed + 1 ELSE healed

\* The cycle's applyHealing reported success: attemptHealing records it
\* and returns the result; executeTest counts the healed test, returns the
\* healing result and runs its finally block.  (The history entry also
\* holds the analysis and a timestamp, which nothing reads.)
CycleSucceeded ==
    /\ pc = "applyReturned"
    /\ cycleSucceeded(healingResult)
    /\ healingHistory' = Append(healingHistory,
                                [error |-> error.message, success |-> TRUE, attempt |-> attempt])
    /\ cycleResults' = Append(cycleResults, TRUE)
    /\ metrics' = updateMetrics([metrics EXCEPT
                                    !.healedTests = healedTestsAfter(@, healingResult)])
    /\ settled' = [kind |-> "resolved", value |-> healingResult]
    /\ pc' = "idle"
    /\ UNCHANGED <<options, testContext, engineVars, thrown, error, result, attempt,
                   healingAttempts, analysis, idx, healingResult, calls, execLog,
                   atCall, historyAtApply, analysisFailures>>
    /\ UNCHANGED unitVars

\* The cycle failed (applyHealing returned success:false, or threw into
\* attemptHealing's catch block): the attempt is noted and the loop goes on.
CycleFailed ==
    /\ pc = "applyReturned"
    /\ ~cycleSucceeded(healingResult)
    /\ healingAttempts' = Append(healingAttempts, [attempt |-> attempt, error |-> healingResult.error])
    /\ cycleResults' = Append(cycleResults, FALSE)
    /\ attempt' = attempt + 1
    /\ pc' = "attemptHealing"
    \* healingStrategy and healingResult are block-scoped to the iteration
    /\ analysis' = NoAnalysis
    /\ idx' = 0
    /\ healingResult' = None
    /\ execLog' = <<>>
    /\ historyAtApply' = <<>>
    /\ UNCHANGED <<frameworkVars, engineVars, settled, thrown, error, result,
                   calls, atCall, analysisFailures>>
    /\ UNCHANGED unitVars

\* attemptHealing's loop is over without a success: it records the failure
\* and returns {success:false, attempts}; executeTest then executes
\* `throw error` and its finally block.
AttemptsExhausted ==
    /\ pc = "attemptHealing"
    /\ ~loopContinues(attempt, options)
    /\ healingHistory' = Append(healingHistory,
                                [error |-> error.message, success |-> FALSE,
                                 attempts |-> healingAttempts])
    /\ metrics' = updateMetrics([metrics EXCEPT
                                    !.healedTests = healedTestsAfter(@, [tag |-> "attempts", success |-> FALSE])])
    /\ settled' = [kind |-> "rejected", value |-> error]
    /\ pc' = "idle"
    /\ UNCHANGED <<options, testContext, engineVars, callVars>>
    /\ UNCHANGED unitVars

Next ==
    \/ ExecuteTest
    \/ \E analyzeTest \in {"not called", "returns", "throws"} : PreTestAnalysis(analyzeTest)
    \/ \E v \in TestResults : TestFunctionReturns(v)
    \/ \E learnFromTest \in {"not called", "returns", "throws"} : PostTestAnalysis(learnFromTest)
    \/ \E m \in ThrowableMessages : TestFunctionThrows(m)
    \/ CatchAttemptHealing
    \/ CatchRethrow
    \/ \E response \in AIResponses : AnalyzeError(response)
    \/ ApplyHealing
    \/ \E outcome \in {"success", "failure", "throws", "undefined", "dispatch_throws"} :
          ExecuteStrategy(outcome)
    \/ AllStrategiesFailed
    \/ CycleSucceeded
    \/ CycleFailed
    \/ AttemptsExhausted

Spec == Init /\ [][Next]_vars

\* ================================================================ claims
Settled == pc = "idle" /\ settled.kind # "pending"

\* testFunction threw an Error that carries a string message.
ThrewWithMessage == thrown.tag = "error" /\ thrown.message # NoMessage

SomeCycleSucceeded == \E i \in 1..Len(cycleResults) : cycleResults[i]

\* C1: when testFunction throws an error whose message contains none of
\* the seven allow-list substrings, executeTest makes no analyzeError or
\* applyHealing call, leaves healedTests unchanged and rejects with that
\* error.
C1_NonHealableNeverReachesOrchestrator ==
    (ThrewWithMessage /\ ~isHealableError(thrown)) =>
        /\ calls = <<>>
        /\ metrics.healedTests = atCall.healedTests
        /\ Settled => settled = [kind |-> "rejected", value |-> thrown]

NumCalls(op) == Cardinality({i \in 1..Len(calls) : calls[i].op = op})

SomeStrategySucceeded == \E i \in 1..Len(execLog) : execLog[i].outcome = "success"

\* C4: applyHealing executes the ranked strategies in list order, each at
\* most once, and stops at the first success: when it returns, the number
\* executed is the position of the first successful strategy, or the
\* length of the list if none succeeded.
C4_InOrderUntilFirstSuccess ==
    /\ Len(execLog) <= Len(analysis.strategies)
    /\ \A i \in 1..Len(execLog) :
          /\ execLog[i].index = i
          /\ execLog[i].strategy = analysis.strategies[i].strategy
    /\ \A i \in 1..(Len(execLog) - 1) : execLog[i].outcome # "success"
    /\ (pc = "applyReturned" /\ ~SomeStrategySucceeded) =>
          Len(execLog) = Len(analysis.strategies)

\* applyHealing returned after the first of two ranked strategies
\* succeeded; the second was not executed.
C4_Witness ==
    /\ pc = "applyReturned"
    /\ Len(analysis.strategies) = 2
    /\ Len(execLog) = 1
    /\ execLog[1].outcome = "success"

Threw(outcome) == outcome \in {"throws", "undefined", "dispatch_throws"}

\* C5: an exception during the execution of a strategy counts as that
\* strategy's failure: applyHealing does not throw, and the next strategy
\* of the ranked list (if there is one) is executed.
C5_ExceptionIsStrategyFailure ==
    /\ healingResult.tag # "thrown"
    /\ \A i \in 1..Len(execLog) :
          Threw(execLog[i].outcome) =>
             \/ i < Len(execLog)
             \/ pc = "applyHealing" /\ idx = i + 1
             \/ pc = "applyReturned" /\ i = Len(analysis.strategies)
                                     /\ healingResult.tag = "exhausted"

\* The first strategy threw and the second one was executed after it.
C5_Witness ==
    /\ Len(execLog) = 2
    /\ Threw(execLog[1].outcome)

C7_SuccessAddsOneHistoryEntry ==
    /\ pc = "applyHealing" => engineHealingHistory = historyAtApply
    /\ (pc = "applyReturned" /\ SomeStrategySucceeded) =>
          /\ healingResult.tag = "result"
          /\ healingResult.success
          /\ healingResult.strategy = execLog[Len(execLog)].strategy
          /\ Len(engineHealingHistory) = Len(historyAtApply) + 1
          /\ SubSeq(engineHealingHistory, 1, Len(historyAtApply)) = historyAtApply
          /\ engineHealingHistory[Len(engineHealingHistory)].strategy
                = execLog[Len(execLog)].strategy
          /\ engineHealingHistory[Len(engineHealingHistory)].success

\* The second strategy succeeded after the first one failed.
C7_Witness ==
    /\ pc = "applyReturned"
    /\ Len(execLog) = 2
    /\ execLog[1].outcome # "success"
    /\ execLog[2].outcome = "success"

\* C8: healedTests grows by exactly one during an executeTest call if and
\* only if one of the call's healing cycles succeeded, and then the call
\* resolves with the healing result.
C8_HealedTestsCountsHealedCalls ==
    /\ metrics.healedTests = atCall.healedTests + (IF SomeCycleSucceeded THEN 1 ELSE 0)
    /\ SomeCycleSucceeded =>
          /\ settled = [kind |-> "resolved", value |-> healingResult]
          /\ healingResult.tag = "result"
          /\ healingResult.success

\* A call was healed in its second cycle.
C8_Witness ==
    /\ Settled
    /\ Len(cycleResults) = 2
    /\ SomeCycleSucceeded
    /\ metrics.healedTests = atCall.healedTests + 1

C10_PassingTestResolvesWithResult ==
    result.tag = "testResult" =>
        /\ calls = <<>>
        /\ metrics.healedTests = atCall.healedTests
        /\ healingHistory = atCall.healingHistory
        /\ Settled => settled = [kind |-> "resolved", value |-> result]

\* A passing call settled, with the AI analyses enabled.
C10_Witness ==
    /\ Settled
    /\ options.enableAI
    /\ result.tag = "testResult"
    /\ result.defined
    /\ settled.kind = "resolved"

\* C20: a test whose testFunction returns normally is reported as passed
\* even when the pre-test analysis, the post-test learning call or the
\* orchestrator's pattern update threw: the exception is caught, no
\* healing starts because of it, and executeTest resolves with the value
\* testFunction returned.
C20_AnalysisFailuresNeverFailTheTest ==
    /\ (analysisFailures # {} /\ thrown = None) =>
          /\ pc \in {"preTestAnalysis", "testFunction", "postTestAnalysis", "idle"}
          /\ error = None
          /\ calls = <<>>
          /\ settled.kind # "rejected"
    /\ (analysisFailures # {} /\ result.tag = "testResult" /\ Settled) =>
          settled = [kind |-> "resolved", value |-> result]

\* A passing call settled although its pre-test analysis and one of its
\* post-test steps threw.
C20_Witness ==
    /\ Settled
    /\ result.tag = "testResult"
    /\ "analyzeTest" \in analysisFailures
    /\ analysisFailures \cap {"learnFromTest", "updatePatterns"} # {}
    /\ settled.kind = "resolved"

\* ============================================ executeTest against the clock
\* The metrics of executeTest, with Date.now() followed and the healing
\* flow reduced to the three ways a call settles.
MaxClock == 3
MaxTimedTests == 3

\* Mutant: a running average over all executed tests.
averageHealingTimeRunningAverage(old, testDuration, totalTests) ==
    (old * (totalTests - 1) + testDuration) \div totalTests

\* updateMetrics: `this.metrics.averageHealingTime = testDuration`.
averageHealingTimeAfter(old, testDuration, totalTests) == testDuration

\* executeTest: `testStartTime = Date.now(); this.metrics.totalTests++`.
TimedExecuteTest ==
    /\ pc = "idle"
    /\ metrics.totalTests < MaxTimedTests
    /\ testStartTime' = now
    /\ metrics' = [metrics EXCEPT !.totalTests = @ + 1]
    /\ pc' = "timed"
    /\ UNCHANGED <<options, testContext, healingHistory, engineVars, callVars, settled,
                   now, averageHealingTime, outcomes, store, lastCall, rateTable,
                   executorCall, instances, inFlight, testFunctionInvocations>>

\* Time passes.
Tick ==
    /\ now < MaxClock
    /\ now' = now + 1
    /\ UNCHANGED <<frameworkVars, engineVars, callVars, settled, pc, testStartTime,
                   averageHealingTime, outcomes, store, lastCall, rateTable,
                   executorCall, instances, inFlight, testFunctionInvocations>>

\* The call settles: the test passed (`return result`), it was healed
\* (`healedTests++; return healingResult`, which takes healing enabled and
\* at least one healing cycle) or it failed (`throw error`); the finally
\* block then updates the metrics with the call's duration.
TimedSettle(outcome) ==
    /\ pc = "timed"
    /\ outcome = "healed" => shouldAttemptHealing(options) /\ loopContinues(1, options)
    /\ LET testDuration == now - testStartTime
           counted == [metrics EXCEPT !.healedTests =
                          IF outcome = "healed" THEN @ + 1 ELSE @]
       IN  /\ metrics' = updateMetrics(counted)
           /\ averageHealingTime' =
                 averageHealingTimeAfter(averageHealingTime, testDuration, metrics.totalTests)
           /\ outcomes' = Append(outcomes, [outcome |-> outcome, duration |-> testDuration])
    /\ pc' = "idle"
    /\ UNCHANGED <<options, testContext, healingHistory, engineVars, callVars, settled,
                   now, testStartTime, store, lastCall, rateTable, executorCall, instances, inFlight, testFunctionInvocations>>

MetricsNext ==
    \/ TimedExecuteTest
    \/ Tick
    \/ \E outcome \in {"passed", "healed", "failed"} : TimedSettle(outcome)

MetricsSpec == Init /\ [][MetricsNext]_vars

NumHealed == Cardinality({i \in 1..Len(outcomes) : outcomes[i].outcome = "healed"})

\* C11: every executeTest call adds exactly one to totalTests, whether the
\* test passes, is healed or fails; when a call has settled,
\* healingSuccessRate = healedTests / totalTests * 100 and
\* averageHealingTime is the duration of that call alone.
C11_MetricsPerCall ==
    /\ metrics.totalTests = Len(outcomes) + (IF pc = "timed" THEN 1 ELSE 0)
    /\ metrics.healedTests = NumHealed
    /\ (pc = "idle" /\ outcomes # <<>>) =>
          /\ metrics.healingSuccessRate.n * metrics.totalTests
                = metrics.healedTests * 100 * metrics.healingSuccessRate.d
          /\ averageHealingTime = outcomes[Len(outcomes)].duration

\* Three calls settled, one passed, one healed and one failed, the last
\* one with another duration than the first.
C11_Witness ==
    /\ pc = "idle"
    /\ Len(outcomes) = 3
    /\ \A o \in {"passed", "healed", "failed"} :
          \E i \in 1..3 : outcomes[i].outcome = o
    /\ outcomes[1].duration > outcomes[3].duration
    /\ outcomes[3].duration > 0

\* ====================================== the orchestrator, call by call
\* One HealingEngine with its collaborators (the AI integration, the file
\* system) as they answer each call: the calls the wrapper, the tests and
\* the teardown make on it, in any order.
MaxEngineCalls == 3

\* `this.healingHistory.slice(-1000)`
HistoryLimit == 1000

Null == "null"

\* JSON.stringify writes an `undefined` array element as null.
jsonKey(k) == IF k = Undefined THEN Null ELSE k

\* A Map written as JSON.stringify(Array.from(map.entries())) and read back
\* with new Map(...).  A pattern whose name is undefined loses the field in
\* the file and reads undefined again, so the values are unchanged.
jsonMap(m) ==
    [j \in {jsonKey(k) : k \in DOMAIN m} |-> m[CHOOSE k \in DOMAIN m : jsonKey(k) = j]]

\* Array.prototype.slice(-n)
lastEntries(history, n) ==
    IF Len(history) <= n THEN history
    ELSE SubSeq(history, Len(history) - n + 1, Len(history))

\* data/patterns.json after a successful writeJson; savedFrom remembers the
\* in-memory state it was written from.
writtenStore(pats, rates, history) ==
    [exists |-> TRUE,
     patterns |-> jsonMap(pats),
     successRates |-> jsonMap(rates),
     healingHistory |-> lastEntries(history, HistoryLimit),
     savedFrom |-> [patterns |-> pats, successRates |-> rates, healingHistory |-> history]]

\* Mutant: saveHealingPatterns without its try/catch.
saveHealingPatternsRethrows(writeFails) ==
    IF writeFails THEN "rejected" ELSE "resolved"

\* How saveHealingPatterns settles: a failing ensureDir/writeJson is caught
\* and logged.
saveHealingPatternsOutcome(writeFails) == "resolved"

\* classifyError called with any error value: `error.message.toLowerCase()`
\* throws a TypeError when message is missing or is not a string.
classifyErrorCall(e) ==
    IF e.message \in 1..Len(Messages)
    THEN [tag |-> "returned", value |-> classifyError(e)]
    ELSE [tag |-> "thrown", value |-> TypeError]

EngineState ==
    [patterns |-> patterns, successRates |-> successRates,
     healingHistory |-> engineHealingHistory]

EmptyEngine == [patterns |-> <<>>, successRates |-> <<>>, healingHistory |-> <<>>]

\* An engine that healed HistoryLimit + 1 times, alternately with a strategy
\* named wait_failure and with locator_healing (both success rates have
\* reached 1 in double precision).
LongRunEngine ==
    [patterns |->
        [k \in {"wait_failure", "locator_healing"} |->
            LET count == IF k = "wait_failure" THEN (HistoryLimit + 2) \div 2
                         ELSE (HistoryLimit + 1) \div 2
            IN  [name |-> k, successCount |-> count, totalCount |-> count,
                 successRate |-> RInt(1)]],
     successRates |-> [k \in {"wait_failure", "locator_healing"} |-> RInt(1)],
     healingHistory |->
        [i \in 1..(HistoryLimit + 1) |->
            healingRecord(Candidate(IF i % 2 = 1 THEN "wait_failure" ELSE "locator_healing",
                                    RInt(80), "ai"))]]

\* Names of the strategies whose success is recorded.
RecordableNames == {"locator_healing", "wait_failure"}

\* Errors handed to the orchestrator: every message of the model, an error
\* without a message and one whose message is a number.
EngineErrors == {PlainError(m) : m \in (0..Len(Messages)) \cup {NumberMessage}}

\* The errors analyzeError is called with here ("unrelated syntax problem"
\* and "TIMEOUT exceeded"), and how generateHealingStrategies settles.
AnalyzedErrors == {PlainError(1), PlainError(2)}
EngineAIResponses ==
    {[kind |-> "rejects", list |-> <<>>]} \cup {r \in AIResponses : Len(r.list) <= 1}

\* seq counts the calls that change the engine or the store.
CallCount == IF lastCall.op = "none" THEN 0 ELSE lastCall.seq

engineFrame == <<frameworkVars, callVars, settled, pc, metricsVars, rateTable, executorCall, instances, inFlight, testFunctionInvocations>>

\* An orchestrator in state `engine`, owned by a wrapper with the default
\* options that runs no test.
EngineStartsAs(engine) ==
    /\ options = [enableHealing |-> TRUE, enableAI |-> TRUE,
                  maxHealingAttempts |-> MaxAttemptsOption]
    /\ testContext \in TestContexts
    /\ metrics = [totalTests |-> 0, healedTests |-> 0, healingSuccessRate |-> RInt(0)]
    /\ healingHistory = <<>>
    /\ patterns = engine.patterns
    /\ successRates = engine.successRates
    /\ engineHealingHistory = engine.healingHistory
    /\ CallIdle
    /\ UnitIdle

\* `new HealingEngine()` without a persisted store.
EngineInit == EngineStartsAs(EmptyEngine)

EngineClassifyError(e) ==
    /\ lastCall' = [op |-> "classifyError", seq |-> CallCount, error |-> e,
                    outcome |-> classifyErrorCall(e), before |-> EngineState]
    /\ UNCHANGED <<engineVars, store, engineFrame>>

\* analyzeError(error, testContext).  The AI integration's
\* generateHealingStrategies either settles as AIIntegration's code does
\* (AIResponses), or rejects (a collaborator that fails outside its own
\* try block, such as a replaced one); analyzeError awaits it without a
\* try block.
EngineAnalyzeError(e, response) ==
    /\ lastCall' =
          [op |-> "analyzeError", seq |-> CallCount, error |-> e, response |-> response,
           outcome |->
              IF response.kind = "rejects"
              THEN [tag |-> "thrown", value |-> PlainError(AIErrorMsg)]
              ELSE [tag |-> "returned",
                    value |-> analyzeError(e, testContext, response, patterns, successRates,
                                           engineHealingHistory, CallCount + 1)],
           before |-> EngineState]
    /\ UNCHANGED <<engineVars, store, engineFrame>>

\* recordSuccessfulHealing(strategy, result) for a strategy named `name`.
\* run counts the consecutive calls for that name, runBefore is the Pattern
\* table before the first of them.
EngineRecordSuccessfulHealing(name) ==
    /\ CallCount < MaxEngineCalls
    /\ LET strategy == Candidate(name, RInt(80), "ai")
           continues == lastCall.op = "recordSuccessfulHealing" /\ lastCall.name = name
       IN  /\ engineHealingHistory' = pushHealingRecord(engineHealingHistory, strategy)
           /\ successRates' = updateSuccessRate(successRates, name)
           /\ patterns' = updatePatterns(patterns, name, TRUE)
           /\ lastCall' = [op |-> "recordSuccessfulHealing", seq |-> CallCount + 1,
                           name |-> name,
                           run |-> IF continues THEN lastCall.run + 1 ELSE 1,
                           runBefore |-> IF continues THEN lastCall.runBefore ELSE patterns,
                           before |-> EngineState]
    /\ UNCHANGED <<store, engineFrame>>

\* updatePatterns(result, testContext) as postTestAnalysis calls it for the
\* result of a passing test.
EngineUpdatePatterns ==
    /\ CallCount < MaxEngineCalls
    /\ patterns' = updatePatterns(patterns, Undefined, TRUE)
    /\ lastCall' = [op |-> "updatePatterns", seq |-> CallCount + 1, before |-> EngineState]
    /\ UNCHANGED <<successRates, engineHealingHistory, store, engineFrame>>

EngineSaveHealingPatterns(writeFails) ==
    /\ CallCount < MaxEngineCalls
    /\ store' = IF writeFails THEN store
                ELSE writtenStore(patterns, successRates, engineHealingHistory)
    /\ lastCall' = [op |-> "saveHealingPatterns", seq |-> CallCount + 1,
                    writeFails |-> writeFails,
                    outcome |-> saveHealingPatternsOutcome(writeFails),
                    before |-> EngineState]
    /\ UNCHANGED <<engineVars, engineFrame>>

\* cleanup(): `await this.saveHealingPatterns(); await
\* this.aiIntegration.cleanup()`.
EngineCleanup(writeFails) ==
    /\ CallCount < MaxEngineCalls
    /\ store' = IF writeFails THEN store
                ELSE writtenStore(patterns, successRates, engineHealingHistory)
    /\ LET saved == saveHealingPatternsOutcome(writeFails)
       IN  lastCall' = [op |-> "cleanup", seq |-> CallCount + 1,
                        writeFails |-> writeFails,
                        outcome |-> saved,
                        aiCleanupCalled |-> (saved = "resolved"),
                        before |-> EngineState]
    /\ UNCHANGED <<engineVars, engineFrame>>

\* A fresh engine (`new HealingEngine()`, then initialize()) loads the
\* store: loadHealingPatterns replaces each table the file holds; a missing
\* file or a failing read leaves the fresh engine empty.
EngineLoadHealingPatterns(readFails) ==
    /\ CallCount < MaxEngineCalls
    /\ LET loaded == store.exists /\ ~readFails
       IN  /\ patterns' = IF loaded THEN store.patterns ELSE EmptyEngine.patterns
           /\ successRates' = IF loaded THEN store.successRates ELSE EmptyEngine.successRates
           /\ engineHealingHistory' = IF loaded THEN store.healingHistory
                                      ELSE EmptyEngine.healingHistory
           /\ lastCall' = [op |-> "loadHealingPatterns", seq |-> CallCount + 1,
                           loaded |-> loaded, before |-> EngineState]
    /\ UNCHANGED <<store, engineFrame>>

EngineNext ==
    \/ \E e \in EngineErrors : EngineClassifyError(e)
    \/ \E e \in AnalyzedErrors, response \in EngineAIResponses :
          EngineAnalyzeError(e, response)
    \/ \E name \in RecordableNames : EngineRecordSuccessfulHealing(name)
    \/ EngineUpdatePatterns

EngineSpec == EngineInit /\ [][EngineNext]_vars

\* ------------------------------------------- the orchestrator's store
\* The engine learns, persists its tables and is replaced by a fresh engine
\* that loads them; it starts empty or after a long run.
PersistInit == \E engine \in {EmptyEngine, LongRunEngine} : EngineStartsAs(engine)

PersistNext ==
    \/ \E name \in RecordableNames : EngineRecordSuccessfulHealing(name)
    \/ EngineUpdatePatterns
    \/ \E writeFails \in BOOLEAN : EngineSaveHealingPatterns(writeFails)
    \/ \E writeFails \in BOOLEAN : EngineCleanup(writeFails)
    \/ \E readFails \in BOOLEAN : EngineLoadHealingPatterns(readFails)

PersistSpec == PersistInit /\ [][PersistNext]_vars

\* ------------------------------------------------ claims on the engine
\* The classification rules in their stated order.
C12_Rules == <<
    [class |-> "locator_failure",
     first |-> <<"e","l","e","m","e","n","t"," ","n","o","t"," ","f","o","u","n","d">>,
     second |-> <<"s","e","l","e","c","t","o","r">>],
    [class |-> "wait_failure",
     first |-> <<"t","i","m","e","o","u","t">>,
     second |-> <<"w","a","i","t">>],
    [class |-> "element_state_failure",
     first |-> <<"n","o","t"," ","v","i","s","i","b","l","e">>,
     second |-> <<"n","o","t"," ","c","l","i","c","k","a","b","l","e">>],
    [class |-> "navigation_failure",
     first |-> <<"n","a","v","i","g","a","t","i","o","n">>,
     second |-> <<"p","a","g","e"," ","n","o","t"," ","f","o","u","n","d">>],
    [class |-> "api_failure",
     first |-> <<"a","p","i">>,
     second |-> <<"e","n","d","p","o","i","n","t">>],
    [class |-> "assertion_failure",
     first |-> <<"a","s","s","e","r","t","i","o","n">>,
     second |-> <<"e","x","p","e","c","t">>],
    [class |-> "network_failure",
     first |-> <<"n","e","t","w","o","r","k">>,
     second |-> <<"c","o","n","n","e","c","t","i","o","n">>] >>

C12_Matches(message) ==
    {i \in 1..Len(C12_Rules) :
        \/ includes(toLowerCase(message), C12_Rules[i].first)
        \/ includes(toLowerCase(message), C12_Rules[i].second)}

\* C12: classifyError returns the classification of the first rule, in the
\* order locator, wait, element_state, navigation, api, assertion, network,
\* that matches the lower-cased message, and unknown_failure when none
\* does; a message that contains "timeout" and no locator substring is a
\* wait_failure.
C12_FirstMatchingRuleWins ==
    (lastCall.op = "classifyError" /\ lastCall.outcome.tag = "returned") =>
        LET message == Messages[lastCall.error.message]
            matches == C12_Matches(message)
            class == lastCall.outcome.value
        IN  /\ class = IF matches = {} THEN "unknown_failure"
                       ELSE C12_Rules[CHOOSE i \in matches : \A j \in matches : i <= j].class
            /\ (includes(toLowerCase(message), <<"t","i","m","e","o","u","t">>) /\ 1 \notin matches)
                  => class = "wait_failure"

\* A message in mixed case that matches the locator rule and the wait rule
\* was classified.
C12_Witness ==
    /\ lastCall.op = "classifyError"
    /\ lastCall.outcome.tag = "returned"
    /\ {1, 2} \subseteq C12_Matches(Messages[lastCall.error.message])
    /\ toLowerCase(Messages[lastCall.error.message]) # Messages[lastCall.error.message]

\* C13: classifyError returns one of the eight classifications for every
\* error value, also one whose message is missing or is not a string,
\* without throwing and without changing the orchestrator's state.
C13_ClassifyErrorIsTotal ==
    lastCall.op = "classifyError" =>
        /\ lastCall.outcome.tag = "returned"
        /\ lastCall.outcome.value \in
              {C12_Rules[i].class : i \in 1..Len(C12_Rules)} \cup {"unknown_failure"}
        /\ EngineState = lastCall.before

\* C14: when the AI collaborator fails during strategy generation,
\* analyzeError does not throw: it resolves with the classification and
\* with exactly the ranked pattern-sourced candidates as strategies.
C14_AIFailureLeavesPatternStrategies ==
    (lastCall.op = "analyzeError" /\ lastCall.response.kind \in {"throws", "rejects"}) =>
        /\ lastCall.outcome.tag = "returned"
        /\ lastCall.outcome.value.errorType = classifyError(lastCall.error)
        /\ lastCall.outcome.value.strategies =
              rankStrategies(
                  getPatternBasedStrategies(classifyError(lastCall.error),
                                            extractContextData(testContext),
                                            lastCall.before.patterns),
                  testContext, lastCall.before.successRates,
                  lastCall.before.healingHistory)

\* C15: after k consecutive recordSuccessfulHealing calls for a strategy
\* name that had no pattern before them, the pattern of that name has
\* successCount = k, totalCount = k and successRate = 1, and the patterns
\* of all other names are as they were.
C15_ConsecutiveSuccessesCountUp ==
    (lastCall.op = "recordSuccessfulHealing" /\ lastCall.name \notin DOMAIN lastCall.runBefore) =>
        /\ DOMAIN patterns = DOMAIN lastCall.runBefore \cup {lastCall.name}
        /\ patterns[lastCall.name].successCount = lastCall.run
        /\ patterns[lastCall.name].totalCount = lastCall.run
        /\ patterns[lastCall.name].successRate = [n |-> 1, d |-> 1]
        /\ \A k \in DOMAIN lastCall.runBefore : patterns[k] = lastCall.runBefore[k]

\* Two successes in a row were recorded for a name without a pattern, on an
\* engine that held the pattern of another name.
C15_Witness ==
    /\ lastCall.op = "recordSuccessfulHealing"
    /\ lastCall.run = 2
    /\ lastCall.runBefore # <<>>
    /\ lastCall.name \notin DOMAIN lastCall.runBefore

\* C17: the engine that loaded a saved store holds a Pattern table and a
\* Success Rate table equal to the saved ones, and as healing history the
\* last min(n, 1000) entries of the saved history, in their order.
C17_SaveLoadRoundTrip ==
    (lastCall.op = "loadHealingPatterns" /\ lastCall.loaded) =>
        LET saved == store.savedFrom
            n == Len(saved.healingHistory)
            kept == IF n < 1000 THEN n ELSE 1000
        IN  /\ patterns = saved.patterns
            /\ successRates = saved.successRates
            /\ Len(engineHealingHistory) = kept
            /\ \A i \in 1..kept :
                  engineHealingHistory[i] = saved.healingHistory[n - kept + i]

\* C18: cleanup does not throw when writing the store fails: it runs to
\* its end, the AI integration's cleanup is called, and the Pattern table,
\* the Success Rate table and the healing history in memory are unchanged.
C18_CleanupSurvivesWriteFailure ==
    (lastCall.op = "cleanup" /\ lastCall.writeFails) =>
        /\ lastCall.outcome = "resolved"
        /\ lastCall.aiCleanupCalled
        /\ EngineState = lastCall.before

\* cleanup ran on an engine that had learned something, and the write
\* failed.
C18_Witness ==
    /\ lastCall.op = "cleanup"
    /\ lastCall.writeFails
    /\ patterns # <<>>
    /\ engineHealingHistory # <<>>
    /\ ~store.exists

\* ============================== the Success Rate table in double precision
\* recordSuccessfulHealing computes `(currentRate + 1) / 2` on IEEE 754
\* doubles.  A double d > 0 is [exp, sig]: sig is its significand in binary,
\* from the leading 1 to the last 1 (at most Precision bits), and
\* d = 1.sig[2]sig[3]... * 2^exp.
MaxSuccesses == 55

Precision == 53

Double(exp, sig) == [exp |-> exp, sig |-> sig]
DHalf == Double(-1, <<1>>)
DOne == Double(0, <<1>>)

Bit(sig, i) == IF i <= Len(sig) THEN sig[i] ELSE 0

\* a < b
DLess(a, b) ==
    \/ a.exp < b.exp
    \/ /\ a.exp = b.exp
       /\ \E i \in 1..Precision :
             /\ Bit(a.sig, i) < Bit(b.sig, i)
             /\ \A j \in 1..(i - 1) : Bit(a.sig, j) = Bit(b.sig, j)

\* The significand without its trailing zeros.
Trim(sig) ==
    LET ones == {i \in 1..Len(sig) : sig[i] = 1}
    IN  SubSeq(sig, 1, CHOOSE i \in ones : \A j \in ones : j <= i)

\* The exact sum d + 1 for 1/2 <= d <= 1; it may need more than Precision
\* bits.
DAddOne(d) ==
    IF d = DOne THEN Double(1, <<1>>)
    ELSE Double(0, <<1>> \o d.sig)

\* Round to nearest, ties to even, at Precision bits.
DRound(d) ==
    IF Len(d.sig) <= Precision THEN d
    ELSE LET kept == SubSeq(d.sig, 1, Precision)
             rest == SubSeq(d.sig, Precision + 1, Len(d.sig))
             up == /\ rest[1] = 1
                   /\ \/ \E i \in 2..Len(rest) : rest[i] = 1
                      \/ kept[Precision] = 1
             zeros == {i \in 1..Precision : kept[i] = 0}
         IN  IF ~up THEN Double(d.exp, Trim(kept))
             ELSE IF zeros = {} THEN Double(d.exp + 1, <<1>>)
             ELSE LET k == CHOOSE i \in zeros : \A j \in zeros : j <= i
                  IN  Double(d.exp, Trim([i \in 1..Precision |->
                                            IF i < k THEN kept[i] ELSE IF i = k THEN 1 ELSE 0]))

\* d / 2
DHalve(d) == Double(d.exp - 1, d.sig)

\* Mutant: arithmetic on exact reals, without rounding.
newRateExact(currentRate) == DHalve(DAddOne(currentRate))

\* `const newRate = (currentRate + 1) / 2`
newRate(currentRate) == DHalve(DRound(DAddOne(currentRate)))

\* `this.successRates.get(strategy.strategy) || 0.5`
currentRateOf(table, name) == IF name \in DOMAIN table THEN table[name].rate ELSE DHalf

\* recordSuccessfulHealing for a strategy named `name`, on the Success Rate
\* table alone; successes counts the calls for the name, previous is the
\* entry's value before the call.
RateRecordSuccessfulHealing(name) ==
    /\ name \in DOMAIN rateTable => rateTable[name].successes < MaxSuccesses
    /\ LET currentRate == currentRateOf(rateTable, name)
           entry == [rate |-> newRate(currentRate),
                     previous |-> currentRate,
                     successes |-> IF name \in DOMAIN rateTable
                                   THEN rateTable[name].successes + 1 ELSE 1]
       IN  rateTable' = [k \in DOMAIN rateTable \cup {name} |->
                            IF k = name THEN entry ELSE rateTable[k]]
    /\ UNCHANGED <<frameworkVars, engineVars, callVars, settled, pc, metricsVars,
                   store, lastCall, executorCall, instances, inFlight, testFunctionInvocations>>

RateNext == \E name \in RecordableNames : RateRecordSuccessfulHealing(name)

RateSpec == EngineInit /\ [][RateNext]_vars

\* 1 - 2^-k, exactly
OneMinusPowerOfTwo(k) == Double(-1, [i \in 1..k |-> 1])

\* C16 as stated: an entry starts from 0.5 when the name is unseen, each
\* success replaces it by (old + 1) / 2 (0.75 after one, 0.875 after two),
\* it never decreases and it stays strictly between 0.5 and 1.
C16_RateStrictlyBelowOne ==
    \A name \in DOMAIN rateTable :
        /\ rateTable[name].successes = 1 => rateTable[name].rate = Double(-1, <<1, 1>>)
        /\ rateTable[name].successes = 2 => rateTable[name].rate = Double(-1, <<1, 1, 1>>)
        /\ ~DLess(rateTable[name].rate, rateTable[name].previous)
        /\ DLess(DHalf, rateTable[name].rate)
        /\ DLess(rateTable[name].rate, DOne)

\* C16 amended: an entry starts from 0.5 when the name is unseen and each
\* success replaces it by (old + 1) / 2 as double arithmetic computes it:
\* 0.75 after one success, 0.875 after two, 1 - 2^-(n+1) after n <= 52 and
\* exactly 1 from the 53rd success on; it never decreases, is greater than
\* 0.5 and is at most 1.
C16_RateReachesOne ==
    \A name \in DOMAIN rateTable :
        LET n == rateTable[name].successes
            rate == rateTable[name].rate
        IN  /\ n = 1 => rate = Double(-1, <<1, 1>>)
            /\ n = 2 => rate = Double(-1, <<1, 1, 1>>)
            /\ n <= 52 => rate = OneMinusPowerOfTwo(n + 1)
            /\ n >= 53 => rate = DOne
            /\ ~DLess(rate, rateTable[name].previous)
            /\ DLess(DHalf, rate)
            /\ ~DLess(DOne, rate)

\* The 53rd success of one strategy was recorded while another strategy
\* had two.
C16_Witness ==
    \E name \in DOMAIN rateTable, other \in DOMAIN rateTable :
        /\ rateTable[name].successes = 53
        /\ rateTable[name].rate = DOne
        /\ DLess(rateTable[name].previous, DOne)
        /\ rateTable[other].successes = 2

\* ================================================= the Strategy Executors
\* The four UI methods (UIFealingStrategies) and the three API methods
\* (APIHealingStrategies), each called with a testData object.
\*
\* testData: defined is FALSE for an absent testData (`testData || {}`);
\* handle tells whether the live handle of the method is there (page;
\* endpoint, responseSchema, response); element is the locator of
\* testData.element (`element?.locator || element?.selector`); extra tells
\* whether the other fields of the method are set.
StringLocator(text) == [kind |-> "string", text |-> text]

ElementLocators == {
    [kind |-> "undefined"],
    [kind |-> "number"],
    StringLocator(<<"#","s","u","b","m","i","t">>),
    StringLocator(<<".","b","t","n">>),
    StringLocator(<<"[","n","a","m","e","=","q","]">>),
    StringLocator(<<"b","u","t","t","o","n">>) }

TestDataValues ==
    {[defined |-> FALSE, handle |-> FALSE, element |-> [kind |-> "undefined"], extra |-> FALSE]}
    \cup [defined : {TRUE}, handle : BOOLEAN, element : ElementLocators, extra : BOOLEAN]

\* String.prototype.replace('=', '*=')
ReplaceFirstEquals(s) ==
    LET at == {i \in 1..Len(s) : s[i] = "="}
    IN  IF at = {} THEN s
        ELSE LET i == CHOOSE k \in at : \A j \in at : k <= j
             IN  SubSeq(s, 1, i - 1) \o <<"*", "=">> \o SubSeq(s, i + 1, Len(s))

\* UIFealingStrategies.generateAlternativeSelectors, for a string or an
\* undefined locator.
generateAlternativeSelectors(originalLocator) ==
    IF originalLocator.kind # "string" \/ originalLocator.text = <<>> THEN <<>>
    ELSE LET text == originalLocator.text
             rest == Tail(text)
         IN  IF text[1] = "#"
             THEN << <<"[","i","d","=","\"">> \o rest \o <<"\"","]">>,
                     <<"[","d","a","t","a","-","t","e","s","t","i","d","=","\"">> \o rest \o <<"\"","]">>,
                     <<".">> \o rest >>
             ELSE IF text[1] = "."
             THEN << <<"[","c","l","a","s","s","*","=","\"">> \o rest \o <<"\"","]">>,
                     <<"[","d","a","t","a","-","c","l","a","s","s","=","\"">> \o rest \o <<"\"","]">> >>
             ELSE IF text[1] = "["
             THEN << ReplaceFirstEquals(text) >>
             ELSE <<>>

ExecutorResult(success, strategy, changes, errorText) ==
    [success |-> success, strategy |-> strategy, changes |-> changes, error |-> errorText]

\* UIFealingStrategies.tryBasicLocatorStrategies.  The AI step calls
\* aiIntegration.generateLocators, which AIIntegration does not have: the
\* TypeError is caught and logged.  A locator that is not a string makes
\* generateAlternativeSelectors throw (`startsWith` is not a function),
\* which the outer catch block turns into a failure.
tryBasicLocatorStrategies(originalLocator) ==
    IF originalLocator.kind = "number"
    THEN ExecutorResult(FALSE, "locator_healing", Undefined, "TypeError")
    ELSE LET alternatives == generateAlternativeSelectors(originalLocator)
         IN  IF Len(alternatives) > 0
             THEN [success |-> TRUE, strategy |-> "alternative_selector",
                   changes |-> Undefined, error |-> Undefined,
                   locator |-> alternatives[1]]
             ELSE ExecutorResult(FALSE, "locator_healing", Undefined,
                                 "No alternative locators found")

\* The executor methods but healLocatorIssue: the strategy name of their
\* results, the number of sub-techniques they try on a live handle, and
\* the strategy name and change description of their fallback.
ExecutorMethods ==
    [healWaitIssue |->
        [strategy |-> "wait_healing", techniques |-> 4, basicStrategy |-> "basic_wait",
         basicChange |-> "Applied basic wait strategy with 5s timeout"],
     healElementStateIssue |->
        [strategy |-> "element_state_healing", techniques |-> 4,
         basicStrategy |-> "element_state_healing",
         basicChange |-> "Applied basic element state healing"],
     healNavigationIssue |->
        [strategy |-> "navigation_healing", techniques |-> 4,
         basicStrategy |-> "navigation_healing",
         basicChange |-> "Applied basic navigation healing"],
     healEndpointIssue |->
        [strategy |-> "api_endpoint_healing", techniques |-> 4,
         basicStrategy |-> "api_endpoint_healing",
         basicChange |-> "Applied basic API endpoint healing"],
     healSchemaIssue |->
        [strategy |-> "api_schema_healing", techniques |-> 4,
         basicStrategy |-> "api_schema_healing",
         basicChange |-> "Applied basic API schema healing"],
     healResponseIssue |->
        [strategy |-> "api_response_healing", techniques |-> 4,
         basicStrategy |-> "api_response_healing",
         basicChange |-> "Applied basic API response healing"]]

LocatorTechniques == 5

\* The loop over the sub-techniques of a method: firstSuccess is the
\* position of the first sub-technique that reports success (0: none does;
\* one that throws counts as failed).  The number of sub-techniques run and
\* the method's result.
trySubTechniques(strategy, techniques, firstSuccess) ==
    IF firstSuccess = 0
    THEN [run |-> techniques,
          result |-> ExecutorResult(FALSE, strategy, Undefined, "All healing strategies failed")]
    ELSE [run |-> firstSuccess,
          result |-> ExecutorResult(TRUE, strategy, "change of sub-technique", Undefined)]

\* healLocatorIssue(strategy, testData)
healLocatorIssue(testData, firstSuccess) ==
    IF ~testData.handle
    THEN [run |-> 0, result |-> tryBasicLocatorStrategies(testData.element)]
    ELSE trySubTechniques("locator_healing", LocatorTechniques, firstSuccess)

\* The other six methods.
healIssue(method, testData, firstSuccess) ==
    IF ~testData.handle
    THEN [run |-> 0,
          result |-> ExecutorResult(TRUE, ExecutorMethods[method].basicStrategy,
                                    ExecutorMethods[method].basicChange, Undefined)]
    ELSE trySubTechniques(ExecutorMethods[method].strategy,
                          ExecutorMethods[method].techniques, firstSuccess)

executorFrame == <<frameworkVars, engineVars, callVars, settled, pc, metricsVars,
                   store, lastCall, rateTable, instances, inFlight,
                   testFunctionInvocations>>

\* A sub-technique outcome is an input only when the handle is there.
SubTechniqueInput(testData, techniques, firstSuccess) ==
    IF testData.handle THEN firstSuccess \in 0..techniques ELSE firstSuccess = 0

Executed(method, testData, outcome) ==
    executorCall' = [op |-> method, testData |-> testData,
                     subTechniquesRun |-> outcome.run, result |-> outcome.result]

HealLocatorIssue(testData, firstSuccess) ==
    /\ SubTechniqueInput(testData, LocatorTechniques, firstSuccess)
    /\ Executed("healLocatorIssue", testData, healLocatorIssue(testData, firstSuccess))
    /\ UNCHANGED executorFrame

HealWaitIssue(testData, firstSuccess) ==
    /\ SubTechniqueInput(testData, ExecutorMethods.healWaitIssue.techniques, firstSuccess)
    /\ Executed("healWaitIssue", testData, healIssue("healWaitIssue", testData, firstSuccess))
    /\ UNCHANGED executorFrame

HealElementStateIssue(testData, firstSuccess) ==
    /\ SubTechniqueInput(testData, ExecutorMethods.healElementStateIssue.techniques, firstSuccess)
    /\ Executed("healElementStateIssue", testData,
                healIssue("healElementStateIssue", testData, firstSuccess))
    /\ UNCHANGED executorFrame

HealNavigationIssue(testData, firstSuccess) ==
    /\ SubTechniqueInput(testData, ExecutorMethods.healNavigationIssue.techniques, firstSuccess)
    /\ Executed("healNavigationIssue", testData,
                healIssue("healNavigationIssue", testData, firstSuccess))
    /\ UNCHANGED executorFrame

HealEndpointIssue(testData, firstSuccess) ==
    /\ SubTechniqueInput(testData, ExecutorMethods.healEndpointIssue.techniques, firstSuccess)
    /\ Executed("healEndpointIssue", testData,
                healIssue("healEndpointIssue", testData, firstSuccess))
    /\ UNCHANGED executorFrame

HealSchemaIssue(testData, firstSuccess) ==
    /\ SubTechniqueInput(testData, ExecutorMethods.healSchemaIssue.techniques, firstSuccess)
    /\ Executed("healSchemaIssue", testData,
                healIssue("healSchemaIssue", testData, firstSuccess))
    /\ UNCHANGED executorFrame

HealResponseIssue(testData, firstSuccess) ==
    /\ SubTechniqueInput(testData, ExecutorMethods.healResponseIssue.techniques, firstSuccess)
    /\ Executed("healResponseIssue", testData,
                healIssue("healResponseIssue", testData, firstSuccess))
    /\ UNCHANGED executorFrame

ExecutorNext ==
    \E testData \in TestDataValues, firstSuccess \in 0..LocatorTechniques :
        \/ HealLocatorIssue(testData, firstSuccess)
        \/ HealWaitIssue(testData, firstSuccess)
        \/ HealElementStateIssue(testData, firstSuccess)
        \/ HealNavigationIssue(testData, firstSuccess)
        \/ HealEndpointIssue(testData, firstSuccess)
        \/ HealSchemaIssue(testData, firstSuccess)
        \/ HealResponseIssue(testData, firstSuccess)

ExecutorSpec == EngineInit /\ [][ExecutorNext]_vars

\* C19: every Strategy Executor method called without its live handle runs
\* none of its sub-techniques and returns success:true with a generic
\* change description, whatever the other testData fields are.
C19_NoHandleFallbackSucceeds ==
    (executorCall.op # "none" /\ ~executorCall.testData.handle) =>
        /\ executorCall.subTechniquesRun = 0
        /\ executorCall.result.success
        /\ executorCall.result.changes # Undefined

\* =========================== the sub-technique loop of the executors
\* One executor method called with its live handle, its loop taken one
\* sub-technique at a time.
ExecutorTechniques ==
    [healLocatorIssue |->
        <<"tryAlternativeSelectors", "tryAIGeneratedLocators", "tryTextBasedLocators",
          "tryAttributeBasedLocators", "tryPositionBasedLocators">>,
     healWaitIssue |->
        <<"tryExplicitWait", "trySmartWait", "tryPollingWait", "tryConditionalWait">>,
     healElementStateIssue |->
        <<"tryScrollToElement", "tryWaitForVisibility", "tryWaitForInteractability",
          "tryForceInteraction">>,
     healNavigationIssue |->
        <<"tryDirectNavigation", "tryRetryNavigation", "tryAlternativeUrl",
          "tryWaitForPageLoad">>,
     healEndpointIssue |->
        <<"tryAlternativeEndpoints", "tryVersionedEndpoints", "tryFallbackEndpoints",
          "tryAIGeneratedEndpoints">>,
     healSchemaIssue |->
        <<"trySchemaAdaptation", "tryFieldMapping", "tryDataTypeConversion",
          "tryAISchemaHealing">>,
     healResponseIssue |->
        <<"tryResponseNormalization", "tryResponseMapping", "tryResponseValidation",
          "tryAIResponseHealing">>]

ExecutorStrategy(method) ==
    IF method = "healLocatorIssue" THEN "locator_healing"
    ELSE ExecutorMethods[method].strategy

\* How one sub-technique can end: it resolves with success:true or with
\* success:false, it throws, or it resolves with nothing (reading
\* `result.success` then throws inside the loop's try block).
TechniqueOutcomes == {"success", "failure", "throws", "undefined"}

\* Mutant: the loop body without its own try/catch; the exception reaches
\* the method's outer catch block.
subTechniqueLoopStepNoCatch(outcome) ==
    CASE outcome = "success" -> "return"
      [] outcome = "failure" -> "continue"
      [] OTHER -> "throw"

\* The body of the loop after the sub-technique settled.
subTechniqueLoopStep(outcome) ==
    IF outcome = "success" THEN "return" ELSE "continue"

LiveTestData ==
    [defined |-> TRUE, handle |-> TRUE,
     element |-> StringLocator(<<"#","s","u","b","m","i","t">>), extra |-> TRUE]

Running == executorCall.op # "none" /\ executorCall.result = Pending

\* An executor method is called with its handle; a call starts when the
\* one before has returned.
CallExecutor(method) ==
    /\ ~Running
    /\ executorCall' = [op |-> method, testData |-> LiveTestData,
                        subTechniquesRun |-> 0, invoked |-> <<>>, result |-> Pending]
    /\ UNCHANGED executorFrame

\* The next sub-technique of the list is awaited.
RunSubTechnique(outcome) ==
    /\ Running
    /\ executorCall.subTechniquesRun < Len(ExecutorTechniques[executorCall.op])
    /\ LET position == executorCall.subTechniquesRun + 1
           technique == ExecutorTechniques[executorCall.op][position]
           step == subTechniqueLoopStep(outcome)
           strategy == ExecutorStrategy(executorCall.op)
       IN  executorCall' =
              [executorCall EXCEPT
                  !.subTechniquesRun = position,
                  !.invoked = Append(@, [technique |-> technique, outcome |-> outcome]),
                  !.result =
                      CASE step = "return" ->
                              ExecutorResult(TRUE, strategy, "change of " \o technique, Undefined)
                        [] step = "continue" -> Pending
                        [] step = "throw" ->
                              ExecutorResult(FALSE, strategy, Undefined, "error.message")]
    /\ UNCHANGED executorFrame

\* The loop ran out of sub-techniques.
AllSubTechniquesFailed ==
    /\ Running
    /\ executorCall.subTechniquesRun = Len(ExecutorTechniques[executorCall.op])
    /\ executorCall' =
          [executorCall EXCEPT
              !.result = ExecutorResult(FALSE, ExecutorStrategy(executorCall.op), Undefined,
                                        "All healing strategies failed")]
    /\ UNCHANGED executorFrame

TechniqueNext ==
    \/ \E method \in DOMAIN ExecutorTechniques : CallExecutor(method)
    \/ \E outcome \in TechniqueOutcomes : RunSubTechnique(outcome)
    \/ AllSubTechniquesFailed

TechniqueSpec == EngineInit /\ [][TechniqueNext]_vars

\* C21: with the live handle present an executor method tries its
\* sub-techniques in their listed order; it returns success at the first
\* one that succeeds and runs none after it; one that throws or fails is
\* passed over; failure is reported only after all of them were tried.
C21_SubTechniquesInOrderUntilFirstSuccess ==
    executorCall.op # "none" =>
        LET listed == ExecutorTechniques[executorCall.op]
            invoked == executorCall.invoked
            succeeded == {i \in 1..Len(invoked) : invoked[i].outcome = "success"}
        IN  /\ Len(invoked) <= Len(listed)
            /\ \A i \in 1..Len(invoked) : invoked[i].technique = listed[i]
            /\ succeeded \subseteq {Len(invoked)}
            /\ executorCall.result = Pending => succeeded = {}
            /\ executorCall.result # Pending =>
                  IF executorCall.result.success
                  THEN succeeded = {Len(invoked)}
                  ELSE succeeded = {} /\ Len(invoked) = Len(listed)

C21_Witness ==
    /\ executorCall.op = "healLocatorIssue"
    /\ executorCall.result # Pending
    /\ executorCall.result.success
    /\ Len(executorCall.invoked) = 4
    /\ executorCall.invoked[1].outcome = "throws"
    /\ executorCall.invoked[2].outcome = "failure"
    /\ executorCall.invoked[3].outcome = "undefined"

\* ======================================= executeHealingStrategy's dispatch
\* Strategy names are sequences of characters here, so that the switch on
\* `strategy.strategy.toLowerCase()` is computed.
DispatchTable == <<
    [name |-> <<"l","o","c","a","t","o","r","_","h","e","a","l","i","n","g">>,
     handler |-> "healLocatorIssue"],
    [name |-> <<"w","a","i","t","_","h","e","a","l","i","n","g">>,
     handler |-> "healWaitIssue"],
    [name |-> <<"e","l","e","m","e","n","t","_","s","t","a","t","e","_","h","e","a","l","i","n","g">>,
     handler |-> "healElementStateIssue"],
    [name |-> <<"n","a","v","i","g","a","t","i","o","n","_","h","e","a","l","i","n","g">>,
     handler |-> "healNavigationIssue"],
    [name |-> <<"a","p","i","_","e","n","d","p","o","i","n","t","_","h","e","a","l","i","n","g">>,
     handler |-> "healEndpointIssue"],
    [name |-> <<"a","p","i","_","s","c","h","e","m","a","_","h","e","a","l","i","n","g">>,
     handler |-> "healSchemaIssue"],
    [name |-> <<"a","p","i","_","r","e","s","p","o","n","s","e","_","h","e","a","l","i","n","g">>,
     handler |-> "healResponseIssue"],
    [name |-> <<"d","a","t","a","_","h","e","a","l","i","n","g">>,
     handler |-> "healDataIssue"] >>

UpperChar(c) ==
    IF \E i \in 1..26 : Lower[i] = c
    THEN Upper[CHOOSE i \in 1..26 : Lower[i] = c]
    ELSE c

Capitalised(s) == [s EXCEPT ![1] = UpperChar(@)]

\* Names a candidate can carry: the names of the table as written and
\* capitalised, and two names outside the table.
DispatchedNames ==
    {DispatchTable[i].name : i \in 1..Len(DispatchTable)}
    \cup {Capitalised(DispatchTable[i].name) : i \in 1..Len(DispatchTable)}
    \cup { <<"c","u","s","t","o","m","_","f","i","x">>, <<"R","e","t","r","y">> }

\* typeof strategy.implementation
ImplementationKinds == {"function", "string", "undefined", "object"}

\* The candidates handed to executeHealingStrategy; named is FALSE for a
\* candidate without a `strategy` field.
DispatchedStrategies ==
    [named : {TRUE}, strategy : DispatchedNames, implementation : ImplementationKinds]
    \cup [named : {FALSE}, strategy : {<<>>}, implementation : ImplementationKinds]

\* Mutant: the switch on the name as given.
strategyTypeAsGiven(name) == name

\* `const strategyType = strategy.strategy.toLowerCase()`
strategyType(name) == toLowerCase(name)

\* The case of the switch.
handlerOf(type) ==
    IF \E i \in 1..Len(DispatchTable) : DispatchTable[i].name = type
    THEN DispatchTable[CHOOSE i \in 1..Len(DispatchTable) : DispatchTable[i].name = type].handler
    ELSE "executeCustomStrategy"

\* How the code a handler runs can end.  A built-in handler's body always
\* builds a result object; a custom implementation may resolve with
\* nothing.  "throws" raises an Error, "throws_null" raises null, whose
\* `.message` cannot be read.
HandlerRuns(handler) ==
    IF handler = "executeCustomStrategy"
    THEN {"success", "failure", "nothing", "throws", "throws_null"}
    ELSE {"success", "failure", "throws", "throws_null"}

Returned(value) == [tag |-> "returned", value |-> value]
Thrown(value) == [tag |-> "thrown", value |-> value]

StrategyFailure(strategy, errorText) ==
    [success |-> FALSE, error |-> errorText, strategy |-> strategy.strategy]

\* A handler whose whole body is in try { ... } catch (error) { return {
\* success: false, error: error.message, ... } }: the catch block itself
\* throws a TypeError when the thrown value is null.
handlerSettles(strategy, run) ==
    CASE run = "success" -> Returned([success |-> TRUE, error |-> Undefined,
                                      strategy |-> strategy.strategy])
      [] run = "failure" -> Returned(StrategyFailure(strategy, "failed"))
      [] run = "nothing" -> Returned(Undefined)
      [] run = "throws" -> Returned(StrategyFailure(strategy, "message of the error"))
      [] run = "throws_null" -> Thrown(TypeError)

\* executeCustomStrategy(strategy, testFunction, testData)
executeCustomStrategy(strategy, run) ==
    IF strategy.implementation \in {"function", "string"}
    THEN handlerSettles(strategy, run)
    ELSE Returned(StrategyFailure(strategy, "Invalid strategy implementation"))

\* executeHealingStrategy(strategy, testFunction, testData, context) with
\* the handler it invoked and whether a custom implementation was run.
executeHealingStrategyCall(strategy, run) ==
    IF ~strategy.named
    THEN [outcome |-> Thrown(TypeError), handler |-> "none", implementationRan |-> FALSE]
    ELSE LET handler == handlerOf(strategyType(strategy.strategy))
             handled == IF handler = "executeCustomStrategy"
                        THEN executeCustomStrategy(strategy, run)
                        ELSE handlerSettles(strategy, run)
         IN  [outcome |-> IF handled.tag = "thrown"
                          THEN Returned(StrategyFailure(strategy, "message of the TypeError"))
                          ELSE handled,
              handler |-> handler,
              implementationRan |-> /\ handler = "executeCustomStrategy"
                                    /\ strategy.implementation \in {"function", "string"}]

EngineExecuteHealingStrategy(strategy, run) ==
    /\ run \in IF strategy.named
                THEN HandlerRuns(handlerOf(strategyType(strategy.strategy)))
                ELSE {"success"}
    /\ lastCall' = [op |-> "executeHealingStrategy", seq |-> CallCount,
                    strategy |-> strategy, run |-> run,
                    call |-> executeHealingStrategyCall(strategy, run),
                    before |-> EngineState]
    /\ UNCHANGED <<engineVars, store, engineFrame>>

DispatchNext ==
    \E strategy \in DispatchedStrategies,
       run \in {"success", "failure", "nothing", "throws", "throws_null"} :
        EngineExecuteHealingStrategy(strategy, run)

DispatchSpec == EngineInit /\ [][DispatchNext]_vars

\* The eight names of the claim and their handlers.
C22_Table == <<
    <<"locator_healing", <<"l","o","c","a","t","o","r","_","h","e","a","l","i","n","g">>,
      "healLocatorIssue">>,
    <<"wait_healing", <<"w","a","i","t","_","h","e","a","l","i","n","g">>, "healWaitIssue">>,
    <<"element_state_healing",
      <<"e","l","e","m","e","n","t","_","s","t","a","t","e","_","h","e","a","l","i","n","g">>,
      "healElementStateIssue">>,
    <<"navigation_healing",
      <<"n","a","v","i","g","a","t","i","o","n","_","h","e","a","l","i","n","g">>,
      "healNavigationIssue">>,
    <<"api_endpoint_healing",
      <<"a","p","i","_","e","n","d","p","o","i","n","t","_","h","e","a","l","i","n","g">>,
      "healEndpointIssue">>,
    <<"api_schema_healing",
      <<"a","p","i","_","s","c","h","e","m","a","_","h","e","a","l","i","n","g">>,
      "healSchemaIssue">>,
    <<"api_response_healing",
      <<"a","p","i","_","r","e","s","p","o","n","s","e","_","h","e","a","l","i","n","g">>,
      "healResponseIssue">>,
    <<"data_healing", <<"d","a","t","a","_","h","e","a","l","i","n","g">>, "healDataIssue">> >>

\* C22: executeHealingStrategy sends the lower-cased name through the
\* table of eight names, each to its one handler, and every other name to
\* the custom path; the custom path runs a function or string
\* implementation and otherwise returns the 'Invalid strategy
\* implementation' failure; whatever the handler does,
\* executeHealingStrategy returns.
C22_DispatchByLowerCasedName ==
    (lastCall.op = "executeHealingStrategy" /\ lastCall.strategy.named) =>
        LET strategy == lastCall.strategy
            lowered == toLowerCase(strategy.strategy)
            rows == {i \in 1..Len(C22_Table) : C22_Table[i][2] = lowered}
            call == lastCall.call
        IN  /\ Cardinality(rows) <= 1
            /\ \A i \in rows : call.handler = C22_Table[i][3]
            /\ rows = {} => call.handler = "executeCustomStrategy"
            /\ call.handler = "executeCustomStrategy" =>
                  /\ call.implementationRan <=>
                        strategy.implementation \in {"function", "string"}
                  /\ ~call.implementationRan =>
                        call.outcome = Returned([success |-> FALSE,
                                                 error |-> "Invalid strategy implementation",
                                                 strategy |-> strategy.strategy])
            /\ call.outcome.tag = "returned"

C22_Witness ==
    /\ lastCall.op = "executeHealingStrategy"
    /\ lastCall.strategy.strategy = <<"L","o","c","a","t","o","r","_","h","e","a","l","i","n","g">>
    /\ lastCall.strategy.implementation = "function"
    /\ lastCall.run = "throws_null"
    /\ lastCall.call.handler = "healLocatorIssue"
    /\ ~lastCall.call.outcome.value.success

\* ================================= the orchestrator's candidate ranking
\* An orchestrator that learns from healings and is asked, between them,
\* to analyse an error, to score a candidate, to look up its patterns and
\* to compare the context with its history.
RankContexts ==
    TestContexts \cup {[testType |-> "api", pageUrl |-> PageUrl, aiAnalysis |-> FALSE]}

\* Names of the strategies that healed: three of them are spelt like the
\* keys findMatchingPatterns builds for a wait_failure.
RankedNames == {"wait_failure", "ui_wait_failure", "api_wait_failure",
                "example.com_wait_failure", "locator_healing"}

\* Candidates handed to calculateStrategyScore.
ScoredCandidates ==
    {Candidate(name, RInt(confidence), "ai") :
        name \in {"locator_healing", "wait_healing"}, confidence \in {0, 1, 60, 100}}

RankInit ==
    /\ options = [enableHealing |-> TRUE, enableAI |-> TRUE,
                  maxHealingAttempts |-> MaxAttemptsOption]
    /\ testContext \in RankContexts
    /\ metrics = [totalTests |-> 0, healedTests |-> 0, healingSuccessRate |-> RInt(0)]
    /\ healingHistory = <<>>
    /\ patterns = EmptyEngine.patterns
    /\ successRates = EmptyEngine.successRates
    /\ engineHealingHistory = EmptyEngine.healingHistory
    /\ CallIdle
    /\ UnitIdle

EngineCalculateStrategyScore(candidate) ==
    /\ lastCall' = [op |-> "calculateStrategyScore", seq |-> CallCount,
                    strategy |-> candidate,
                    outcome |-> calculateStrategyScore(candidate, testContext, successRates,
                                                       engineHealingHistory),
                    before |-> EngineState]
    /\ UNCHANGED <<engineVars, store, engineFrame>>

EngineGetPatternBasedStrategies(errorType) ==
    /\ lastCall' = [op |-> "getPatternBasedStrategies", seq |-> CallCount,
                    errorType |-> errorType,
                    outcome |-> getPatternBasedStrategies(errorType,
                                                          extractContextData(testContext),
                                                          patterns),
                    before |-> EngineState]
    /\ UNCHANGED <<engineVars, store, engineFrame>>

EngineCalculateContextSimilarity ==
    /\ lastCall' = [op |-> "calculateContextSimilarity", seq |-> CallCount,
                    outcome |-> calculateContextSimilarity(testContext, engineHealingHistory),
                    before |-> EngineState]
    /\ UNCHANGED <<engineVars, store, engineFrame>>

RankNext ==
    \/ \E name \in RankedNames : EngineRecordSuccessfulHealing(name)
    \/ \E response \in AIResponses : EngineAnalyzeError(PlainError(2), response)
    \/ \E candidate \in ScoredCandidates : EngineCalculateStrategyScore(candidate)
    \/ \E errorType \in {"wait_failure", "locator_failure"} :
          EngineGetPatternBasedStrategies(errorType)
    \/ EngineCalculateContextSimilarity

RankSpec == RankInit /\ [][RankNext]_vars

\* ------------------------------------------------- claims on the ranking
C23_Clamp(x) == IF RLess(RInt(100), x) THEN RInt(100) ELSE IF RLess(x, RInt(0)) THEN RInt(0) ELSE x

\* C23: for every candidate with a confidence in 0..100 the score is
\* confidence + historicalSuccessRate(name) x 30 + contextSimilarity x 20
\* clamped to [0,100], the historical rate being the Success Rate table
\* entry of the name, or 0.5 when the name is unseen.
C23_ScoreIsConfidencePlusBonuses ==
    lastCall.op = "calculateStrategyScore" =>
        LET candidate == lastCall.strategy
            rates == lastCall.before.successRates
            historicalSuccessRate ==
                IF candidate.strategy \in DOMAIN rates THEN rates[candidate.strategy] ELSE Half
            contextSimilarity ==
                calculateContextSimilarity(testContext, lastCall.before.healingHistory)
        IN  lastCall.outcome =
                C23_Clamp(RAdd(RAdd(candidate.confidence, RMul(historicalSuccessRate, 30)),
                               RMul(contextSimilarity, 20)))

C24_Stripped(c) == [strategy |-> c.strategy, confidence |-> c.confidence, source |-> c.source]

RECURSIVE C24_Orders(_)
C24_Orders(S) ==
    IF S = {} THEN {<<>>}
    ELSE UNION {{<<x>> \o p : p \in C24_Orders(S \ {x})} : x \in S}

\* C24: the strategies analyzeError returns are a rearrangement of the
\* AI-sourced candidates followed by the pattern-sourced ones, none dropped
\* and none merged, in non-increasing order of score, candidates of equal
\* score in their generation order.
C24_StrategiesAreStablySortedUnion ==
    (lastCall.op = "analyzeError" /\ lastCall.outcome.tag = "returned") =>
        LET generated ==
                generateHealingStrategies(lastCall.response)
                \o getPatternBasedStrategies(classifyError(lastCall.error),
                                             extractContextData(testContext),
                                             lastCall.before.patterns)
            ranked == lastCall.outcome.value.strategies
        IN  /\ Len(ranked) = Len(generated)
            /\ \A i \in 1..(Len(ranked) - 1) : ~RLess(ranked[i].score, ranked[i + 1].score)
            /\ \E order \in C24_Orders(1..Len(generated)) :
                  /\ \A i \in 1..Len(ranked) :
                        C24_Stripped(ranked[i]) = C24_Stripped(generated[order[i]])
                  /\ \A i, j \in 1..Len(ranked) :
                        (i < j /\ ranked[i].score = ranked[j].score) => order[i] < order[j]

\* An AI candidate of lower score generated before one of higher score,
\* and a pattern candidate of the same name and score as the latter.
C24_Witness ==
    /\ lastCall.op = "analyzeError"
    /\ lastCall.outcome.tag = "returned"
    /\ lastCall.response.kind = "json"
    /\ Len(lastCall.response.list) = 2
    /\ lastCall.response.list[1].strategy = Undefined
    /\ lastCall.response.list[2].strategy = "wait_failure"
    /\ Len(lastCall.outcome.value.strategies) = 3
    /\ lastCall.outcome.value.strategies[1].source = "ai"
    /\ lastCall.outcome.value.strategies[1].strategy = "wait_failure"
    /\ lastCall.outcome.value.strategies[2].source = "pattern"
    /\ lastCall.outcome.value.strategies[2].strategy = "wait_failure"
    /\ lastCall.outcome.value.strategies[2].score = lastCall.outcome.value.strategies[1].score
    /\ lastCall.outcome.value.strategies[3].strategy = Undefined

\* C25: pattern-based generation returns, in this order, one candidate for
\* each of the keys classification, {testType}_{classification} and
\* {hostname of pageUrl}_{classification} that the Pattern table holds, and
\* nothing else, each with confidence = successRate x 100 and source
\* 'pattern'.
C25_OneCandidatePerLearnedKey ==
    lastCall.op = "getPatternBasedStrategies" =>
        LET classification == lastCall.errorType
            context == extractContextData(testContext)
            table == lastCall.before.patterns
            keys == <<classification, context.testType \o "_" \o classification>>
                    \o (IF context.pageUrl = PageUrl
                        THEN <<"example.com_" \o classification>> ELSE <<>>)
            learned == SelectSeq(keys, LAMBDA k : k \in DOMAIN table)
            candidates == lastCall.outcome
        IN  /\ Len(candidates) = Len(learned)
            /\ \A i \in 1..Len(learned) :
                  /\ candidates[i].strategy = table[learned[i]].name
                  /\ candidates[i].confidence = RMul(table[learned[i]].successRate, 100)
                  /\ candidates[i].source = "pattern"

\* The test-type key and the hostname key are learned, the classification
\* itself is not, next to a pattern that is not looked up.
C25_Witness ==
    /\ lastCall.op = "getPatternBasedStrategies"
    /\ lastCall.errorType = "wait_failure"
    /\ Len(lastCall.outcome) = 2
    /\ lastCall.outcome[1].strategy = "api_wait_failure"
    /\ lastCall.outcome[2].strategy = "example.com_wait_failure"
    /\ "locator_healing" \in DOMAIN lastCall.before.patterns

\* C26: contextSimilarity is 0.8 exactly when an entry of the engine's
\* healing history has the testType and the pageUrl of the current
\* context; after a healing was recorded for a failure in a context, a
\* later failure in the same context is ranked with 0.8.  (The wrapper's
\* test context stays the same here, so every entry of the history was
\* recorded for a failure in the context of the call.)
C26_SameContextRanksWithBonus ==
    lastCall.op = "calculateContextSimilarity" =>
        /\ lastCall.outcome \in {[n |-> 4, d |-> 5], [n |-> 3, d |-> 10]}
        /\ lastCall.outcome = [n |-> 4, d |-> 5] <=>
              \E i \in 1..Len(lastCall.before.healingHistory) :
                  /\ lastCall.before.healingHistory[i].context.testType = testContext.testType
                  /\ lastCall.before.healingHistory[i].context.pageUrl = testContext.pageUrl
        /\ lastCall.before.healingHistory # <<>> => lastCall.outcome = [n |-> 4, d |-> 5]

\* ------------------------------------- claims on what the engine learns
\* The step is a strategy execution that succeeded.
StrategySucceeds ==
    /\ pc = "applyHealing"
    /\ Len(execLog') = Len(execLog) + 1
    /\ execLog'[Len(execLog')].outcome = "success"

\* C27: the Pattern table, the Success Rate table and the engine's healing
\* history change only when a strategy execution succeeds (so analyzeError
\* and an applyHealing call whose strategies all fail or throw leave them
\* unchanged, and a failure never lowers a success rate).
C27_EngineLearnsOnlyFromStrategySuccess ==
    [][ (<<patterns, successRates, engineHealingHistory>>' #
         <<patterns, successRates, engineHealingHistory>>) => StrategySucceeds ]_vars

\* The step is a strategy execution that failed or threw.
StrategyFails ==
    /\ pc = "applyHealing"
    /\ Len(execLog') = Len(execLog) + 1
    /\ execLog'[Len(execLog')].outcome \in {"failure", "throws"}

C28_Counts(table, name) ==
    IF name \in DOMAIN table
    THEN [successCount |-> table[name].successCount, totalCount |-> table[name].totalCount]
    ELSE [successCount |-> 0, totalCount |-> 0]

\* C28: a Pattern entry is created on the first outcome recorded for a
\* strategy name and updated on every later one, failed executions
\* included (on a failure totalCount grows by one and successCount does
\* not), so that successRate is the lifetime ratio of successes to
\* attempts; entries are never deleted.
C28_EveryOutcomeUpdatesThePattern ==
    [][ /\ DOMAIN patterns \subseteq DOMAIN patterns'
        /\ \A name \in DOMAIN patterns' :
              patterns'[name].successRate =
                  Rat(patterns'[name].successCount, patterns'[name].totalCount)
        /\ StrategySucceeds =>
              LET name == execLog'[Len(execLog')].strategy
              IN  /\ C28_Counts(patterns', name).totalCount =
                        C28_Counts(patterns, name).totalCount + 1
                  /\ C28_Counts(patterns', name).successCount =
                        C28_Counts(patterns, name).successCount + 1
        /\ StrategyFails =>
              LET name == execLog'[Len(execLog')].strategy
              IN  /\ C28_Counts(patterns', name).totalCount =
                        C28_Counts(patterns, name).totalCount + 1
                  /\ C28_Counts(patterns', name).successCount =
                        C28_Counts(patterns, name).successCount
      ]_vars

\* ===================================== the AI integration's candidates
\* generateHealingStrategies of the engine's AI integration, called with
\* an error and the wrapper's test context, for every way callAI can
\* answer.
Prose(text) == [kind |-> "prose", list |-> <<>>, text |-> text]

\* "I cannot help", "healing the locator", "Try locator healing",
\* "LOCATOR_HEALING" and "use a wait strategy and locator healing".
ProseResponses == {
    Prose(<<"I"," ","c","a","n","n","o","t"," ","h","e","l","p">>),
    Prose(<<"h","e","a","l","i","n","g"," ","t","h","e"," ","l","o","c","a","t","o","r">>),
    Prose(<<"T","r","y"," ","l","o","c","a","t","o","r"," ","h","e","a","l","i","n","g">>),
    Prose(<<"L","O","C","A","T","O","R","_","H","E","A","L","I","N","G">>),
    Prose(<<"u","s","e"," ","a"," ","w","a","i","t"," ","s","t","r","a","t","e","g","y"," ",
            "a","n","d"," ","l","o","c","a","t","o","r"," ","h","e","a","l","i","n","g">>) }

ParsedResponses ==
    AIResponses \cup {[kind |-> "json_value", list |-> <<>>]} \cup ProseResponses

\* JSON.parse rejects the response text.
Unparseable(response) == response.kind \in {"text", "prose"}

\* buildHealingPrompt only interpolates error.message and the context
\* fields, so that no error value makes the call throw.
EngineGenerateHealingStrategies(e, response) ==
    /\ lastCall' = [op |-> "generateHealingStrategies", seq |-> CallCount,
                    error |-> e, context |-> testContext, response |-> response,
                    outcome |-> Returned(generateHealingStrategies(response)),
                    before |-> EngineState]
    /\ UNCHANGED <<engineVars, store, engineFrame>>

ParseNext ==
    \E e \in EngineErrors, response \in ParsedResponses :
        EngineGenerateHealingStrategies(e, response)

ParseSpec == RankInit /\ [][ParseNext]_vars

\* C29: when the AI response text is not JSON, strategy generation does
\* not throw and yields exactly the two generic candidates locator_healing
\* and wait_healing, each with confidence 60.
C29_UnparseableYieldsGenericPair ==
    (lastCall.op = "generateHealingStrategies" /\ Unparseable(lastCall.response)) =>
        /\ lastCall.outcome.tag = "returned"
        /\ Len(lastCall.outcome.value) = 2
        /\ lastCall.outcome.value[1].strategy = "locator_healing"
        /\ lastCall.outcome.value[2].strategy = "wait_healing"
        /\ \A i \in 1..2 : lastCall.outcome.value[i].confidence = RInt(60)

\* C30: for the same error and context, a throwing AI call and an AI
\* response that is not JSON produce the same list of AI-sourced
\* candidates.
C30_ThrowAndUnparseableAlike ==
    (lastCall.op = "generateHealingStrategies" /\ Unparseable(lastCall.response)) =>
        lastCall.outcome =
            Returned(generateHealingStrategies([kind |-> "throws", list |-> <<>>]))

\* ------------------------------------------ claims on the test function
\* C35: testFunction is invoked exactly once per executeTest call whatever
\* the outcome (no healing cycle and no strategy execution runs it again),
\* so a healed call resolves with the orchestrator's healing result
\* although the test function only ever threw.
C35_TestFunctionInvokedOnce ==
    /\ testFunctionInvocations <= metrics.totalTests
    /\ settled # Pending =>
          /\ testFunctionInvocations = metrics.totalTests
          /\ (settled.kind = "resolved" /\ thrown # None) =>
                /\ result = None
                /\ settled.value = healingResult
                /\ cycleSucceeded(healingResult)

\* A call that was healed by a custom strategy in its second cycle.
C35_Witness ==
    /\ settled.kind = "resolved"
    /\ thrown # None
    /\ Len(cycleResults) = 2
    /\ healingResult.strategy = "wait_failure"
    /\ testFunctionInvocations = 1

\* ------------------------------------------ claims on the passing test
\* C36: the steps of an executeTest call after its testFunction returned
\* leave the Pattern table, the Success Rate table and the engine's healing
\* history unchanged, and every key of the Pattern table is the name of a
\* strategy of a recorded healing.
C36_PassingTestLeavesLearningState ==
    [][ /\ pc = "postTestAnalysis" =>
              <<patterns, successRates, engineHealingHistory>>' =
              <<patterns, successRates, engineHealingHistory>>
        /\ \A name \in DOMAIN patterns' :
              \E i \in 1..Len(engineHealingHistory') :
                  engineHealingHistory'[i].strategy = name ]_vars

\* ------------------------------------------ claims on healable errors
\* C37: every error that isHealableError accepts (its lower-cased message
\* contains one of the allow-list substrings) is classified by
\* classifyError as something other than unknown_failure.
C37_HealableErrorsAreClassified ==
    (/\ lastCall.op = "classifyError"
     /\ lastCall.error.message \in 1..Len(Messages)
     /\ isHealableError(lastCall.error)) =>
        /\ lastCall.outcome.tag = "returned"
        /\ lastCall.outcome.value # "unknown_failure"

\* Every substring of the allow-list occurs in a message of the model, and
\* a message accepted for "network error" alone was classified.
C37_Witness ==
    /\ \A i \in 1..Len(healablePatterns) :
          \E m \in 1..Len(Messages) : includes(toLowerCase(Messages[m]), healablePatterns[i])
    /\ lastCall.op = "classifyError"
    /\ lastCall.error.message \in 1..Len(Messages)
    /\ isHealableError(lastCall.error)
    /\ toLowerCase(Messages[lastCall.error.message]) # Messages[lastCall.error.message]
    /\ lastCall.outcome = [tag |-> "returned", value |-> "network_failure"]

\* ------------------------------------------------ claims on termination
\* The analyzeError call a healing cycle awaits settles (the step
\* AnalyzeError, whatever the AI collaborator answered).
AnalyzeErrorSettles ==
    /\ pc = "attemptHealing"
    /\ loopContinues(attempt, options)
    /\ pc' = "analyzed"

\* Every step of a running executeTest call awaits one external call (an
\* analysis step, the test function, the AI collaborator, a strategy
\* execution) or runs synchronous code; each is assumed to settle, so
\* the step that follows is eventually taken.  Starting a call is not
\* required.
LiveSpec ==
    /\ Spec
    /\ WF_vars(\E analyzeTest \in {"not called", "returns", "throws"} :
                  PreTestAnalysis(analyzeTest))
    /\ WF_vars(\/ \E v \in TestResults : TestFunctionReturns(v)
               \/ \E m \in ThrowableMessages : TestFunctionThrows(m))
    /\ WF_vars(\E learnFromTest \in {"not called", "returns", "throws"} :
                  PostTestAnalysis(learnFromTest))
    /\ WF_vars(CatchAttemptHealing \/ CatchRethrow)
    /\ WF_pc(AnalyzeErrorSettles)
    /\ WF_vars(ApplyHealing)
    /\ WF_vars(\E outcome \in {"success", "failure", "throws", "undefined", "dispatch_throws"} :
                  ExecuteStrategy(outcome))
    /\ WF_vars(AllStrategiesFailed \/ CycleSucceeded \/ CycleFailed \/ AttemptsExhausted)

\* C40: if every external call eventually settles, every executeTest call
\* eventually settles (resolves or rejects); it runs at most
\* maxHealingAttempts healing cycles, and each cycle executes at most as
\* many strategies as its ranked list holds (so the executions of a call
\* number at most the sum of the lengths of its cycles' lists).
C40_EveryCallSettlesWithinItsBounds ==
    /\ [](/\ Len(cycleResults) <= options.maxHealingAttempts
          /\ attempt <= options.maxHealingAttempts + 1
          /\ Len(execLog) <= Len(analysis.strategies))
    /\ (pc # "idle") ~> (pc = "idle" /\ settled # Pending)

\* A call was rejected after two failed cycles, in the second of which
\* both ranked strategies were executed.
C40_Witness ==
    /\ settled.kind = "rejected"
    /\ options.maxHealingAttempts = MaxAttemptsOption
    /\ cycleResults = <<FALSE, FALSE>>
    /\ Len(calls) = 4
    /\ Len(healingAttempts) = 2

\* ------------------------------------------- the Pattern table's counts
\* The ranked lists applyHealing is called with here.
AppliedLists == SeqsUpTo(RecordableNames, MaxStrategies) \ {<<>>}

\* applyHealing(healingStrategy, ...) on a ranked list of which the
\* strategy at firstSuccess is the first to succeed (0: none does): the
\* strategies before it fail or throw and leave no trace, the successful
\* one is recorded by recordSuccessfulHealing.
EngineApplyHealing(strategies, firstSuccess) ==
    /\ CallCount < MaxEngineCalls
    /\ firstSuccess \in 0..Len(strategies)
    /\ IF firstSuccess = 0
       THEN UNCHANGED engineVars
       ELSE LET strategy == Candidate(strategies[firstSuccess], RInt(80), "ai")
            IN  /\ engineHealingHistory' = pushHealingRecord(engineHealingHistory, strategy)
                /\ successRates' = updateSuccessRate(successRates, strategy.strategy)
                /\ patterns' = updatePatterns(patterns, strategy.strategy, TRUE)
    /\ lastCall' = [op |-> "applyHealing", seq |-> CallCount + 1,
                    strategies |-> strategies, firstSuccess |-> firstSuccess,
                    outcome |-> IF firstSuccess = 0
                                THEN [success |-> FALSE, strategies |-> strategies]
                                ELSE [success |-> TRUE, strategy |-> strategies[firstSuccess]],
                    before |-> EngineState]
    /\ UNCHANGED <<store, engineFrame>>

\* updatePatterns(strategy, success) called with a strategy named `name`
\* (or without a name) and any success flag.
EngineUpdatePatternsWith(name, success) ==
    /\ CallCount < MaxEngineCalls
    /\ patterns' = updatePatterns(patterns, name, success)
    /\ lastCall' = [op |-> "updatePatterns", seq |-> CallCount + 1, name |-> name,
                    success |-> success, before |-> EngineState]
    /\ UNCHANGED <<successRates, engineHealingHistory, store, engineFrame>>

CountsNext ==
    \/ \E e \in AnalyzedErrors, response \in EngineAIResponses :
          EngineAnalyzeError(e, response)
    \/ \E strategies \in AppliedLists, firstSuccess \in 0..MaxStrategies :
          EngineApplyHealing(strategies, firstSuccess)
    \/ \E name \in RecordableNames : EngineRecordSuccessfulHealing(name)
    \/ \E name \in RecordableNames \cup {Undefined}, success \in BOOLEAN :
          EngineUpdatePatternsWith(name, success)
    \/ \E writeFails \in BOOLEAN : EngineCleanup(writeFails)

CountsSpec == EngineInit /\ [][CountsNext]_vars

\* C38: after any sequence of analyzeError, applyHealing,
\* recordSuccessfulHealing, updatePatterns and cleanup calls every entry of
\* the Pattern table has totalCount >= 1, 0 <= successCount <= totalCount
\* and successRate = successCount / totalCount, and no call removes an
\* entry or lowers its totalCount or successCount.
C38_PatternCountsAreConsistent ==
    [][ /\ \A k \in DOMAIN patterns' :
              /\ patterns'[k].totalCount >= 1
              /\ patterns'[k].successCount >= 0
              /\ patterns'[k].successCount <= patterns'[k].totalCount
              /\ patterns'[k].successRate =
                    Rat(patterns'[k].successCount, patterns'[k].totalCount)
        /\ \A k \in DOMAIN patterns :
              /\ k \in DOMAIN patterns'
              /\ patterns'[k].totalCount >= patterns[k].totalCount
              /\ patterns'[k].successCount >= patterns[k].successCount ]_vars

\* An entry with one failure and one success, persisted by cleanup.
C38_Witness ==
    /\ lastCall.op = "cleanup"
    /\ store.exists
    /\ \E k \in DOMAIN patterns :
          /\ patterns[k].successCount = 1
          /\ patterns[k].totalCount = 2
          /\ patterns[k].successRate = Half

\* ------------------------------------------------------- data healing
\* Test data handed to a healing call: a plain object, nothing, and an
\* object JSON.stringify cannot serialise (one that refers to itself, as a
\* browser page held in testData does).
HealedTestData ==
    {[tag |-> "data", serialisable |-> TRUE, value |-> "original"],
     [tag |-> "undefined", serialisable |-> TRUE, value |-> "undefined"],
     [tag |-> "data", serialisable |-> FALSE, value |-> "page"]}

\* What callAI does for the data healing prompt.
DataAIAnswers == {"throws", "unparseable", "json"}

\* AIIntegration.healTestData(testData, error): the prompt is built with
\* JSON.stringify(testData, null, 2) before the try block, so a value
\* that cannot be serialised makes the call reject; inside the try block
\* a throwing callAI and a failing JSON.parse both yield testData.
healTestData(testData, answer) ==
    IF ~testData.serialisable THEN Thrown("TypeError: Converting circular structure to JSON")
    ELSE IF answer = "json"
    THEN Returned([tag |-> "data", serialisable |-> TRUE, value |-> "corrected"])
    ELSE Returned(testData)

\* HealingEngine.healDataIssue(strategy, testData).
healDataIssue(strategy, testData, answer) ==
    LET healed == healTestData(testData, answer)
    IN  IF healed.tag = "returned"
        THEN [tag |-> "result", success |-> TRUE, strategy |-> strategy.strategy,
              healedData |-> healed.value, error |-> "none"]
        ELSE [tag |-> "result", success |-> FALSE, strategy |-> strategy.strategy,
              healedData |-> None, error |-> healed.value]

\* The ranked lists of this view: data_healing and a custom strategy.
DataLists == SeqsUpTo({"data_healing", "custom_retry"}, MaxStrategies) \ {<<>>}

\* The results of the strategies of an applyHealing call on `names`:
\* data_healing runs healDataIssue, every other strategy settles with
\* success `others`.
DataResults(names, testData, answer, others) ==
    [i \in 1..Len(names) |->
        IF names[i] = "data_healing"
        THEN healDataIssue(Candidate(names[i], RInt(80), "ai"), testData, answer)
        ELSE [tag |-> "result", success |-> others, strategy |-> names[i],
              healedData |-> None, error |-> IF others THEN "none" ELSE "failed"]]

\* applyHealing on a ranked list that may hold data_healing candidates.
EngineApplyDataHealing(names, testData, answer, others) ==
    /\ CallCount < MaxEngineCalls
    /\ LET results == DataResults(names, testData, answer, others)
           successes == {i \in 1..Len(names) : applyHealingLoopStep(results[i]) = "return"}
           first == IF successes = {} THEN 0
                    ELSE CHOOSE i \in successes : \A j \in successes : i <= j
       IN  /\ IF first = 0
              THEN UNCHANGED engineVars
              ELSE LET strategy == Candidate(names[first], RInt(80), "ai")
                   IN  /\ engineHealingHistory' =
                             pushHealingRecord(engineHealingHistory, strategy)
                       /\ successRates' = updateSuccessRate(successRates, names[first])
                       /\ patterns' = updatePatterns(patterns, names[first], TRUE)
           /\ lastCall' = [op |-> "applyHealing", seq |-> CallCount + 1,
                           strategies |-> names, testData |-> testData,
                           answer |-> answer, others |-> others,
                           executed |-> IF first = 0 THEN Len(names) ELSE first,
                           outcome |-> IF first = 0
                                       THEN allStrategiesFailed(
                                               [i \in 1..Len(names) |->
                                                   Candidate(names[i], RInt(80), "ai")])
                                       ELSE results[first],
                           before |-> EngineState]
    /\ UNCHANGED <<store, engineFrame>>

DataNext ==
    \E names \in DataLists, testData \in HealedTestData, answer \in DataAIAnswers,
       others \in BOOLEAN :
        EngineApplyDataHealing(names, testData, answer, others)

DataSpec == EngineInit /\ [][DataNext]_vars

\* C39: a candidate named data_healing cannot fail: healDataIssue returns
\* success:true also when the AI collaborator throws or answers with
\* unparseable text (healedData is then the unchanged testData), so
\* applyHealing stops at the first data_healing candidate it reaches and
\* records it as a successful healing.
C39_DataHealingNeverFails ==
    (/\ lastCall.op = "applyHealing"
     /\ \E i \in 1..Len(lastCall.strategies) : lastCall.strategies[i] = "data_healing") =>
        LET names == lastCall.strategies
            d == CHOOSE i \in 1..Len(names) :
                    /\ names[i] = "data_healing"
                    /\ \A j \in 1..(i - 1) : names[j] # "data_healing"
        IN  (lastCall.executed >= d) =>
               /\ lastCall.executed = d
               /\ lastCall.outcome.success
               /\ lastCall.outcome.strategy = "data_healing"
               /\ lastCall.answer # "json" => lastCall.outcome.healedData = lastCall.testData
               /\ engineHealingHistory =
                     Append(lastCall.before.healingHistory,
                            healingRecord(Candidate("data_healing", RInt(80), "ai")))

\* ------------------------------------- strategy executions in flight
\* applyHealing seen at the grain of the promises it creates: a strategy
\* execution begins (executeHealingStrategy is called) and later settles.
\* Here idx is the position of the next strategy to begin and inFlight
\* holds the positions of the executions begun and not yet settled.
overlapFrame == <<frameworkVars, thrown, error, result, attempt, healingAttempts, settled,
                  calls, cycleResults, atCall, historyAtApply, analysisFailures,
                  metricsVars, store, lastCall, rateTable, executorCall, instances,
                  testFunctionInvocations>>

\* Mutant: the loop calls executeHealingStrategy without `await`.
loopDoesNotAwait(flight) == TRUE

\* `const result = await this.executeHealingStrategy(...)`: the loop body
\* goes on, and so reaches its next iteration, only when the execution it
\* began has settled.
loopAwaits(flight) == flight = <<>>

OverlapLists ==
    {[i \in 1..Len(names) |-> Candidate(names[i], RInt(80), "ai")] :
        names \in SeqsUpTo({"locator_healing", "wait_healing", "custom_retry"},
                           MaxStrategies) \ {<<>>}}

\* applyHealing(healingStrategy, ...) is called with a ranked list.
ApplyHealingCalled(strategies) ==
    /\ pc = "idle"
    /\ analysis = NoAnalysis
    /\ analysis' = [NoAnalysis EXCEPT !.strategies = strategies]
    /\ idx' = 1
    /\ pc' = "applyHealing"
    /\ UNCHANGED <<engineVars, healingResult, execLog, inFlight, overlapFrame>>

\* The loop calls executeHealingStrategy for the next strategy.
ExecutionBegins ==
    /\ pc = "applyHealing"
    /\ idx <= Len(analysis.strategies)
    /\ loopAwaits(inFlight)
    /\ inFlight' = Append(inFlight, idx)
    /\ execLog' = Append(execLog, [index |-> idx, strategy |-> analysis.strategies[idx].strategy,
                                   outcome |-> "begins"])
    /\ idx' = idx + 1
    /\ UNCHANGED <<engineVars, pc, analysis, healingResult, overlapFrame>>

\* An execution in flight settles; a success is recorded and returned.
ExecutionSettles(i, outcome) ==
    /\ pc = "applyHealing"
    /\ i \in 1..Len(inFlight)
    /\ LET position == inFlight[i]
           strategy == analysis.strategies[position]
           r == executeHealingStrategy(strategy, outcome)
       IN  /\ outcome \in ExecOutcomes(strategy)
           /\ inFlight' = SubSeq(inFlight, 1, i - 1) \o SubSeq(inFlight, i + 1, Len(inFlight))
           /\ execLog' = Append(execLog, [index |-> position, strategy |-> strategy.strategy,
                                          outcome |-> outcome])
           /\ IF applyHealingLoopStep(r) = "return"
              THEN /\ engineHealingHistory' = pushHealingRecord(engineHealingHistory, strategy)
                   /\ successRates' = updateSuccessRate(successRates, strategy.strategy)
                   /\ patterns' = updatePatterns(patterns, strategy.strategy, TRUE)
                   /\ healingResult' = r
                   /\ pc' = "applyReturned"
              ELSE UNCHANGED <<engineVars, healingResult, pc>>
    /\ UNCHANGED <<analysis, idx, overlapFrame>>

\* Every strategy was executed and none succeeded.
AllExecutionsFailed ==
    /\ pc = "applyHealing"
    /\ idx > Len(analysis.strategies)
    /\ inFlight = <<>>
    /\ healingResult' = allStrategiesFailed(analysis.strategies)
    /\ pc' = "applyReturned"
    /\ UNCHANGED <<engineVars, analysis, idx, execLog, inFlight, overlapFrame>>

OverlapNext ==
    \/ \E strategies \in OverlapLists : ApplyHealingCalled(strategies)
    \/ ExecutionBegins
    \/ \E i \in 1..MaxStrategies, outcome \in {"success", "failure", "throws", "undefined"} :
          ExecutionSettles(i, outcome)
    \/ AllExecutionsFailed

OverlapSpec == EngineInit /\ [][OverlapNext]_vars

\* C32: within one applyHealing call at most one strategy execution is in
\* flight at any time: the execution of the next ranked strategy begins
\* only after the execution of the previous one has settled.
C32_StrategyExecutionsNeverOverlap ==
    /\ Len(inFlight) <= 1
    /\ \A k \in 1..Len(execLog) :
          (execLog[k].outcome = "begins" /\ k > 1) =>
              /\ execLog[k - 1].outcome # "begins"
              /\ execLog[k - 1].index = execLog[k].index - 1

\* The second strategy of a list is in flight after the first one threw.
C32_Witness ==
    /\ pc = "applyHealing"
    /\ inFlight = <<2>>
    /\ Len(execLog) = 3
    /\ execLog[2].outcome = "throws"

\* --------------------------------------------- overlapping executeTest
\* executeTest calls that overlap on one wrapper: a call is started while
\* others await their test function or their healing.  inFlight holds the
\* phase of every call begun and not yet settled; between two awaits a
\* call runs without interruption.
MaxOverlap == 2

overlapCallFrame == <<options, testContext, healingHistory, engineVars, callVars, settled, pc,
                      now, testStartTime, averageHealingTime, store, lastCall, rateTable,
                      executorCall, instances, testFunctionInvocations>>

WithoutCall(flight, i) == SubSeq(flight, 1, i - 1) \o SubSeq(flight, i + 1, Len(flight))

\* executeTest up to its first await: `this.metrics.totalTests++`.
OverlappingExecuteTest ==
    /\ Len(inFlight) < MaxOverlap
    /\ metrics.totalTests < MaxTimedTests
    /\ metrics' = [metrics EXCEPT !.totalTests = @ + 1]
    /\ inFlight' = Append(inFlight, "testFunction")
    /\ UNCHANGED <<outcomes, overlapCallFrame>>

\* The test function of call i threw and healing is enabled: the call
\* awaits attemptHealing.
OverlappingAttemptHealing(i) ==
    /\ i \in 1..Len(inFlight)
    /\ inFlight[i] = "testFunction"
    /\ shouldAttemptHealing(options)
    /\ inFlight' = [inFlight EXCEPT ![i] = "attemptHealing"]
    /\ UNCHANGED <<metrics, outcomes, overlapCallFrame>>

\* Call i settles: `return result`, `healedTests++; return healingResult`
\* or `throw error`, each followed at once by the finally block.
OverlappingSettle(i, outcome) ==
    /\ i \in 1..Len(inFlight)
    /\ CASE outcome = "passed" -> inFlight[i] = "testFunction"
         [] outcome = "healed" -> inFlight[i] = "attemptHealing" /\ loopContinues(1, options)
         [] outcome = "failed" ->
               \/ inFlight[i] = "attemptHealing"
               \/ inFlight[i] = "testFunction" /\ ~shouldAttemptHealing(options)
    /\ LET attempted == [tag |-> "result", success |-> outcome = "healed"]
       IN  metrics' = updateMetrics([metrics EXCEPT
                                        !.healedTests = healedTestsAfter(@, attempted)])
    /\ outcomes' = Append(outcomes, [outcome |-> outcome, duration |-> 0])
    /\ inFlight' = WithoutCall(inFlight, i)
    /\ UNCHANGED overlapCallFrame

InterleaveNext ==
    \/ OverlappingExecuteTest
    \/ \E i \in 1..MaxOverlap : OverlappingAttemptHealing(i)
    \/ \E i \in 1..MaxOverlap, outcome \in {"passed", "healed", "failed"} :
          OverlappingSettle(i, outcome)

InterleaveSpec == Init /\ [][InterleaveNext]_vars

\* C34: in every state of one wrapper, overlapping executeTest calls
\* included, 0 <= healedTests <= totalTests, and once a call has settled
\* healingSuccessRate lies in [0, 100].
C34_MetricsStayInRange ==
    /\ 0 <= metrics.healedTests
    /\ metrics.healedTests <= metrics.totalTests
    /\ outcomes # <<>> =>
          /\ ~RLess(metrics.healingSuccessRate, RInt(0))
          /\ ~RLess(RInt(100), metrics.healingSuccessRate)

\* A call was healed while a call started after it is still running, and
\* the rate was computed with both calls counted.
C34_Witness ==
    /\ Len(inFlight) = 1
    /\ outcomes = <<[outcome |-> "healed", duration |-> 0]>>
    /\ metrics.totalTests = 2
    /\ metrics.healedTests = 1
    /\ metrics.healingSuccessRate = RInt(50)

\* ------------------------------------------ two orchestrators, one store
\* Two HealingEngine instances (parallel test workers) share
\* data/patterns.json.  Each has its own tables; initialize() loads the
\* store, recordSuccessfulHealing changes the instance's own tables,
\* cleanup() takes a snapshot of them and, after an await, replaces the
\* file's content with it.
Instances == {1, 2}
MaxRecords == 2

\* The strategy each instance heals with.
HealsWith(i) == IF i = 1 THEN "locator_healing" ELSE "wait_failure"

\* The store an earlier run left: one healing with locator_healing.
SeedStore ==
    LET strategy == Candidate("locator_healing", RInt(80), "ai")
    IN  writtenStore(updatePatterns(<<>>, "locator_healing", TRUE),
                     updateSuccessRate(<<>>, "locator_healing"),
                     pushHealingRecord(<<>>, strategy))

NewInstance ==
    [phase |-> "constructed", patterns |-> <<>>, successRates |-> <<>>, healingHistory |-> <<>>,
     loaded |-> NoStore, recorded |-> 0, data |-> NoStore]

TwoInstanceInit ==
    /\ options = [enableHealing |-> TRUE, enableAI |-> TRUE,
                  maxHealingAttempts |-> MaxAttemptsOption]
    /\ testContext \in TestContexts
    /\ metrics = [totalTests |-> 0, healedTests |-> 0, healingSuccessRate |-> RInt(0)]
    /\ healingHistory = <<>>
    /\ patterns = <<>>
    /\ successRates = <<>>
    /\ engineHealingHistory = <<>>
    /\ CallIdle
    /\ now = 0
    /\ testStartTime = 0
    /\ averageHealingTime = 0
    /\ outcomes = <<>>
    /\ store \in {NoStore, SeedStore}
    /\ lastCall = NoCall
    /\ rateTable = <<>>
    /\ executorCall = NoCall
    /\ instances = [i \in Instances |-> NewInstance]
    /\ inFlight = <<>>
    /\ testFunctionInvocations = 0

twoInstanceFrame == <<frameworkVars, engineVars, callVars, settled, pc, metricsVars, rateTable,
                      executorCall, inFlight, testFunctionInvocations>>

\* Mutant: a write keeps the entries of the file the snapshot lacks.
storeAfterMergingWrite(old, data) ==
    IF ~old.exists THEN data
    ELSE [data EXCEPT
            !.patterns = [k \in DOMAIN old.patterns \cup DOMAIN data.patterns |->
                             IF k \in DOMAIN data.patterns THEN data.patterns[k]
                             ELSE old.patterns[k]],
            !.successRates = [k \in DOMAIN old.successRates \cup DOMAIN data.successRates |->
                                 IF k \in DOMAIN data.successRates THEN data.successRates[k]
                                 ELSE old.successRates[k]]]

\* fs.writeJson(patternsPath, data): the file holds `data` and nothing of
\* what it held before (each write is taken to replace the content as a
\* whole).
storeAfterWrite(old, data) == data

\* initialize() of instance i: loadHealingPatterns.
InstanceInitialize(i, readFails) ==
    /\ instances[i].phase = "constructed"
    /\ LET loaded == store.exists /\ ~readFails
       IN  instances' = [instances EXCEPT
              ![i].phase = "initialized",
              ![i].patterns = IF loaded THEN store.patterns ELSE @,
              ![i].successRates = IF loaded THEN store.successRates ELSE @,
              ![i].healingHistory = IF loaded THEN store.healingHistory ELSE @,
              ![i].loaded = IF loaded THEN store ELSE NoStore]
    /\ UNCHANGED <<store, lastCall, twoInstanceFrame>>

\* recordSuccessfulHealing on instance i.
InstanceRecordSuccessfulHealing(i) ==
    /\ instances[i].phase = "initialized"
    /\ instances[i].recorded < MaxRecords
    /\ LET strategy == Candidate(HealsWith(i), RInt(80), "ai")
       IN  instances' = [instances EXCEPT
              ![i].healingHistory = pushHealingRecord(@, strategy),
              ![i].successRates = updateSuccessRate(@, strategy.strategy),
              ![i].patterns = updatePatterns(@, strategy.strategy, TRUE),
              ![i].recorded = @ + 1]
    /\ UNCHANGED <<store, lastCall, twoInstanceFrame>>

\* cleanup() of instance i up to `await fs.writeJson(...)`: `data` is built
\* from the instance's tables.
InstanceCleanupBegins(i) ==
    /\ instances[i].phase = "initialized"
    /\ instances' = [instances EXCEPT
          ![i].phase = "saving",
          ![i].data = writtenStore(instances[i].patterns, instances[i].successRates,
                                   instances[i].healingHistory)]
    /\ UNCHANGED <<store, lastCall, twoInstanceFrame>>

\* The write of instance i settles; a failure is caught and logged.
InstanceCleanupCompletes(i, writeFails) ==
    /\ instances[i].phase = "saving"
    /\ instances' = [instances EXCEPT ![i].phase = "done"]
    /\ IF writeFails
       THEN UNCHANGED <<store, lastCall>>
       ELSE /\ store' = storeAfterWrite(store, instances[i].data)
            /\ lastCall' = [op |-> "saveHealingPatterns", seq |-> CallCount + 1, instance |-> i]
    /\ UNCHANGED twoInstanceFrame

TwoInstanceNext ==
    \/ \E i \in Instances, readFails \in BOOLEAN : InstanceInitialize(i, readFails)
    \/ \E i \in Instances : InstanceRecordSuccessfulHealing(i)
    \/ \E i \in Instances : InstanceCleanupBegins(i)
    \/ \E i \in Instances, writeFails \in BOOLEAN : InstanceCleanupCompletes(i, writeFails)

TwoInstanceSpec == TwoInstanceInit /\ [][TwoInstanceNext]_vars

\* What the store held, for a strategy name, when an instance loaded it.
C31_Loaded(i, name) ==
    IF instances[i].loaded.exists /\ name \in DOMAIN instances[i].loaded.patterns
    THEN instances[i].loaded.patterns[name].totalCount
    ELSE 0

\* C31: when two instances loaded the same store, each recorded healings
\* of its own and both ran cleanup, the store is what the instance whose
\* save completed last wrote from its tables, and it holds none of the
\* other instance's updates: the counts for the other instance's strategy
\* are those of the store both loaded.
C31_LastWriterWins ==
    (/\ \A i \in Instances : instances[i].phase = "done" /\ instances[i].recorded > 0
     /\ instances[1].loaded = instances[2].loaded
     /\ lastCall.op = "saveHealingPatterns") =>
        LET last == lastCall.instance
            other == 3 - last
        IN  /\ store = writtenStore(instances[last].patterns, instances[last].successRates,
                                    instances[last].healingHistory)
            /\ (IF HealsWith(other) \in DOMAIN store.patterns
                THEN store.patterns[HealsWith(other)].totalCount ELSE 0)
                 = C31_Loaded(other, HealsWith(other))
            /\ \A k \in 1..Len(store.healingHistory) :
                  store.healingHistory[k].strategy = HealsWith(other) =>
                      /\ instances[other].loaded.exists
                      /\ k <= Len(instances[other].loaded.healingHistory)

\* Both instances loaded the seeded store, recorded and saved; the first
\* instance's save was the last to complete, after the second one's.
C31_Witness ==
    /\ \A i \in Instances : instances[i].phase = "done" /\ instances[i].recorded = MaxRecords
    /\ instances[1].loaded = SeedStore
    /\ instances[2].loaded = SeedStore
    /\ lastCall.op = "saveHealingPatterns"
    /\ lastCall.seq = 2
    /\ lastCall.instance = 1
    /\ store.patterns["locator_healing"].totalCount = 3
    /\ "wait_failure" \notin DOMAIN store.patterns

\* ------------------------------------------------- the healingMode option
\* Three orchestrators that differ in options.healingMode alone are given
\* the same calls with the same errors, contexts, collaborator responses
\* and strategy outcomes; each keeps its own tables and its last output.
HealingModes == {"conservative", "aggressive", "learning"}

\* Mutant: a conservative engine tries the best ranked strategy only.
strategiesTriedByMode(mode, strategies) ==
    IF mode = "conservative" THEN SubSeq(strategies, 1, 1) ELSE strategies

\* The strategies applyHealing iterates over in an engine whose
\* options.healingMode is `mode`: `for (const strategy of strategies)`;
\* no code reads the option.
strategiesTried(mode, strategies) == strategies

ModeInit ==
    /\ options = [enableHealing |-> TRUE, enableAI |-> TRUE,
                  maxHealingAttempts |-> MaxAttemptsOption]
    /\ testContext \in TestContexts
    /\ metrics = [totalTests |-> 0, healedTests |-> 0, healingSuccessRate |-> RInt(0)]
    /\ healingHistory = <<>>
    /\ patterns = <<>>
    /\ successRates = <<>>
    /\ engineHealingHistory = <<>>
    /\ CallIdle
    /\ now = 0
    /\ testStartTime = 0
    /\ averageHealingTime = 0
    /\ outcomes = <<>>
    /\ store = NoStore
    /\ lastCall = NoCall
    /\ rateTable = <<>>
    /\ executorCall = NoCall
    /\ instances = [mode \in HealingModes |->
                       [patterns |-> <<>>, successRates |-> <<>>, healingHistory |-> <<>>,
                        output |-> None]]
    /\ inFlight = <<>>
    /\ testFunctionInvocations = 0

modeFrame == <<frameworkVars, engineVars, callVars, settled, pc, metricsVars, store, rateTable,
               executorCall, inFlight, testFunctionInvocations>>

\* analyzeError(error, context) on every engine.
ModeAnalyzeError(e, response) ==
    /\ CallCount < MaxEngineCalls
    /\ instances' =
          [mode \in HealingModes |->
              [instances[mode] EXCEPT !.output =
                  IF response.kind = "rejects"
                  THEN [tag |-> "thrown", value |-> PlainError(AIErrorMsg)]
                  ELSE [tag |-> "returned",
                        value |-> analyzeError(e, testContext, response,
                                               instances[mode].patterns,
                                               instances[mode].successRates,
                                               instances[mode].healingHistory,
                                               CallCount + 1)]]]
    /\ lastCall' = [op |-> "analyzeError", seq |-> CallCount + 1]
    /\ UNCHANGED modeFrame

\* applyHealing on every engine, for a ranked list whose strategies settle
\* with `settle` (by position).
ModeApplyHealing(strategies, settle) ==
    /\ CallCount < MaxEngineCalls
    /\ Len(settle) = Len(strategies)
    /\ instances' =
          [mode \in HealingModes |->
              LET tried == strategiesTried(mode, strategies)
                  successes == {i \in 1..Len(tried) :
                                   applyHealingLoopStep(
                                       executeHealingStrategy(tried[i], settle[i])) = "return"}
                  first == IF successes = {} THEN 0
                           ELSE CHOOSE i \in successes : \A j \in successes : i <= j
                  engine == instances[mode]
              IN  IF first = 0
                  THEN [engine EXCEPT !.output =
                          [tag |-> "returned", attempted |-> StrategyNames(tried),
                           value |-> allStrategiesFailed(tried)]]
                  ELSE [patterns |-> updatePatterns(engine.patterns, tried[first].strategy, TRUE),
                        successRates |-> updateSuccessRate(engine.successRates,
                                                           tried[first].strategy),
                        healingHistory |-> pushHealingRecord(engine.healingHistory, tried[first]),
                        output |-> [tag |-> "returned",
                                    attempted |-> StrategyNames(SubSeq(tried, 1, first)),
                                    value |-> executeHealingStrategy(tried[first],
                                                                     settle[first])]]]
    /\ lastCall' = [op |-> "applyHealing", seq |-> CallCount + 1]
    /\ UNCHANGED modeFrame

ModeLists ==
    {[i \in 1..Len(names) |-> Candidate(names[i], RInt(80), "ai")] :
        names \in SeqsUpTo({"locator_healing", "wait_healing"}, MaxStrategies) \ {<<>>}}

ModeNext ==
    \/ \E e \in AnalyzedErrors, response \in EngineAIResponses : ModeAnalyzeError(e, response)
    \/ \E strategies \in ModeLists,
          settle \in SeqsUpTo({"success", "failure", "throws"}, MaxStrategies) :
          ModeApplyHealing(strategies, settle)

ModeSpec == ModeInit /\ [][ModeNext]_vars

====
